---- MODULE Spec2Model ----
(***************************************************************************)
(* Model of pp_ser.py, the two-pass expander of !$SER directives.          *)
(*                                                                         *)
(* Text is modelled by its words: a line of text is the sequence of its    *)
(* blank-separated words, and a string of several lines (the current line  *)
(* buffer, the output buffer) is the sequence of its lines.  The empty     *)
(* string is the empty sequence.  The regular expressions of the source    *)
(* are modelled by what they match on the words of the vocabulary below.   *)
(***************************************************************************)
EXTENDS Integers, Sequences, FiniteSets, TLC

VARIABLES
    file,                \* the lines of the input file (infile)
    ifdef,               \* self.ifdef, "" when the guard is disabled
    pc,                  \* position in preprocess(): parse, loop, write, done, exit
    generate,            \* the argument of the running parse() call
    pos,                 \* index of the next physical line of the file
    ser,                 \* self.__ser
    line,                \* self.__line
    linenum,             \* self.__linenum
    module,              \* self.__module
    calls,               \* self.__calls
    outputBuffer,        \* self.__outputBuffer
    implicitnone_found,  \* self.__implicitnone_found
    implicitnone_done,   \* self.__implicitnone_done
    intentin_to_remove,  \* self.intentin_to_remove
    intentin_removed,    \* self.intentin_removed
    err,                 \* message of the fatal error, "" while none
    errline,             \* line number printed by the error report
    traceback,           \* has the program left with an uncaught exception?
    wrote,               \* has preprocess() emitted the output?
    written,             \* the output emitted by preprocess()
    run,                 \* number of the current run of the program
    prevWritten          \* output emitted by the previous run

vars == <<file, ifdef, pc, generate, pos, ser, line, linenum, module, calls,
          outputBuffer, implicitnone_found, implicitnone_done,
          intentin_to_remove, intentin_removed, err, errline, traceback,
          wrote, written, run, prevWritten>>

---------------------------------------------------------------------------
\* Bounds

MaxLines == 4

\* the longest file over the lines of every kind of directive
MaxKindLines == 2

---------------------------------------------------------------------------
\* Generic helpers

Range(f) == {f[i] : i \in DOMAIN f}

Last(sq) == sq[Len(sq)]

Front(sq) == SubSeq(sq, 1, Len(sq) - 1)

\* the orders in which a set can be enumerated
Orders(S) == {f \in [1..Cardinality(S) -> S] : Range(f) = S}

SeqsUpTo(S, n) == UNION {[1..k -> S] : k \in 0..n}

---------------------------------------------------------------------------
\* Static tables of the constructor

methods ==
    [mode |-> "ppser_set_mode", getmode |-> "ppser_get_mode",
     init |-> "ppser_initialize", cleanup |-> "ppser_finalize",
     data |-> "fs_write_field", datawrite |-> "fs_write_field",
     dataread |-> "fs_read_field", option |-> "fs_Option",
     serinfo |-> "fs_add_serializer_metainfo",
     register |-> "fs_register_field",
     registertracers |-> "fs_RegisterAllTracers",
     fieldmetainfo |-> "fs_AddFieldMetaInfo",
     savepoint |-> "fs_create_savepoint",
     spinfo |-> "fs_add_savepoint_metainfo",
     fieldinfo |-> "fs_add_field_metainfo",
     on |-> "fs_enable_serialization", off |-> "fs_disable_serialization"]

language ==
    [cleanup |-> {"CLEANUP", "CLE"}, data |-> {"DATA", "DAT"},
     mode |-> {"MODE", "MOD"}, init |-> {"INIT", "INI"},
     option |-> {"OPTION", "OPT"}, metainfo |-> {"METAINFO"},
     verbatim |-> {"VERBATIM", "VER"}, register |-> {"REGISTER", "REG"},
     registertracers |-> {"REGISTERTRACERS"}, zero |-> {"ZERO", "ZER"},
     savepoint |-> {"SAVEPOINT", "SAV"}, tracer |-> {"TRACER", "TRA"},
     on |-> {"ON"}, off |-> {"OFF"}]

modes == [write |-> "0", read |-> "1", CPU |-> "0", GPU |-> "1"]

real == "wp"

serModule == "m_serialize"

---------------------------------------------------------------------------
\* String functions, on the words of the vocabulary

\* str.upper()
Upper(w) ==
    CASE w = "on" -> "ON" [] w = "off" -> "OFF" [] w = "data" -> "DATA"
      [] w = "dat" -> "DAT" [] w = "zero" -> "ZERO" [] w = "if" -> "IF"
      [] w = "!$ser" -> "!$SER" [] w = "!$ser&" -> "!$SER&"
      [] w = "module" -> "MODULE" [] w = "program" -> "PROGRAM"
      [] w = "end" -> "END" [] w = "implicit" -> "IMPLICIT"
      [] w = "none" -> "NONE" [] w = "procedure" -> "PROCEDURE"
      [] w = ", intent(in)" -> ", INTENT(IN)"
      [] w = "savepoint" -> "SAVEPOINT" [] w = "cleanup" -> "CLEANUP"
      [] w = "verbatim" -> "VERBATIM" [] w = "bogus" -> "BOGUS"
      [] w = "reg" -> "REG" [] w = "register" -> "REGISTER"
      [] w = "ijk" -> "IJK" [] w = "ij" -> "IJ" [] w = "k1" -> "K1"
      [] w = "init" -> "INIT" [] w = "opt" -> "OPT"
      [] w = "metainfo" -> "METAINFO" [] w = "sav" -> "SAV"
      [] w = "tracer" -> "TRACER" [] w = "mode" -> "MODE"
      [] w = "registertracers" -> "REGISTERTRACERS"
      [] w = "Zero" -> "ZERO"
      [] OTHER -> w

\* str.lower()
Lower(w) ==
    CASE w = "IF" -> "if" [] w = "ON" -> "on" [] w = "OFF" -> "off"
      [] w = "VERBOSITY" -> "verbosity"
      [] OTHER -> w

\* the continuation prefix, as a line that is not stripped of it is appended
Glue(w) == w \o "!$SER&"

\* arg.split('=')
Split(t) ==
    CASE t = "k=v(:)" -> <<"k", "v(:)">>
      [] t = "a=b" -> <<"a", "b">>
      [] t = "c=d" -> <<"c", "d">>
      [] t = "e=f" -> <<"e", "f">>
      [] t = "j=w" -> <<"j", "w">>
      [] t = "a=b=c" -> <<"a", "b", "c">>
      [] t = "verbosity=on" -> <<"verbosity", "on">>
      [] t = "VERBOSITY=OFF" -> <<"VERBOSITY", "OFF">>
      [] t = Glue("k=v(:)") -> <<"k", Glue("v(:)")>>
      [] t = Glue("a=b") -> <<"a", Glue("b")>>
      [] t = Glue("c=d") -> <<"c", Glue("d")>>
      [] t = Glue("e=f") -> <<"e", Glue("f")>>
      [] OTHER -> <<t>>

\* re.sub(r'\(.+\)', '', v) of the data directive
StripSubscript(v) ==
    CASE v = "v(:)" -> "v" [] v = "w(:,:)" -> "w" [] OTHER -> v

\* re.sub(r'\(.*?\)', '', x) of the declaration rewriter
StripDim(x) ==
    CASE x = "v(3)" -> "v" [] x = "w(2,2)" -> "w" [] OTHER -> x

\* c.startswith('ppser')
StartsWithPpser(c) ==
    c \in {"ppser_set_mode", "ppser_get_mode", "ppser_initialize",
           "ppser_finalize", "ppser_write_tracer_all",
           "ppser_write_tracer_bx_idx", "ppser_write_tracer_by_name"}

\* the first line of a string, the empty line for the empty string
FirstLine(l) == IF l = <<>> THEN <<>> ELSE l[1]

---------------------------------------------------------------------------
\* The parser object, as a record of the state variables

Self ==
    [ifdef |-> ifdef, ser |-> ser, line |-> line, linenum |-> linenum,
     module |-> module, calls |-> calls, outputBuffer |-> outputBuffer,
     implicitnone_found |-> implicitnone_found,
     implicitnone_done |-> implicitnone_done,
     intentin_to_remove |-> intentin_to_remove,
     intentin_removed |-> intentin_removed,
     err |-> err, errline |-> errline, traceback |-> traceback]

\* __exit_error: report and leave the program
ExitError(s, msg) ==
    IF s.err # "" THEN s
    ELSE [s EXCEPT !.err = msg, !.errline = s.linenum]

\* an exception that nothing catches: the interpreter prints its traceback
\* and leaves, and __exit_error reports nothing
Uncaught(s, exc) ==
    IF s.err # "" THEN s
    ELSE [s EXCEPT !.err = exc, !.traceback = TRUE]

---------------------------------------------------------------------------
\* Directive argument parser

RECURSIVE Flatten(_)
Flatten(ss) == IF ss = <<>> THEN <<>> ELSE Head(ss) \o Flatten(Tail(ss))

\* a generated statement behind its indentation
Ind(tab, words) == IF tab = "" THEN words ELSE <<tab>> \o words

IfLine(if_statement) == <<"IF", "(" \o if_statement \o ")", "THEN">>

EndIfLine == <<"ENDIF">>

\* the parser that takes a token with several '=' as a pair of its first parts
RECURSIVE ArgParseLenient(_, _, _)
ArgParseLenient(args, i, acc) ==
    IF i > Len(args) \/ acc.err # "" THEN acc
    ELSE
      LET arg == args[i] IN
      IF Upper(arg) = "IF"
      THEN ArgParseLenient(args, i + 1, [acc EXCEPT !.if_encountered = TRUE])
      ELSE IF acc.if_encountered
      THEN IF acc.if_statement # ""
           THEN [acc EXCEPT !.err = "IF statement must be last argument"]
           ELSE ArgParseLenient(args, i + 1, [acc EXCEPT !.if_statement = arg])
      ELSE
        LET val == Split(arg) IN
        IF Len(val) = 1
        THEN ArgParseLenient(args, i + 1,
                 [acc EXCEPT !.dirs = Append(@, val[1])])
        ELSE ArgParseLenient(args, i + 1,
                 [acc EXCEPT !.keys = Append(@, val[1]),
                             !.values = Append(@, val[2])])

RECURSIVE ArgParseFrom(_, _, _)
ArgParseFrom(args, i, acc) ==
    IF i > Len(args) \/ acc.err # "" THEN acc
    ELSE
      LET arg == args[i] IN
      IF Upper(arg) = "IF"
      THEN ArgParseFrom(args, i + 1, [acc EXCEPT !.if_encountered = TRUE])
      ELSE IF acc.if_encountered
      THEN IF acc.if_statement # ""
           THEN [acc EXCEPT !.err = "IF statement must be last argument"]
           ELSE ArgParseFrom(args, i + 1, [acc EXCEPT !.if_statement = arg])
      ELSE
        LET val == Split(arg) IN
        IF Len(val) = 1
        THEN ArgParseFrom(args, i + 1,
                 [acc EXCEPT !.dirs = Append(@, val[1])])
        ELSE IF Len(val) = 2
        THEN ArgParseFrom(args, i + 1,
                 [acc EXCEPT !.keys = Append(@, val[1]),
                             !.values = Append(@, val[2])])
        ELSE [acc EXCEPT
                 !.err = "Problem extracting arguments and key=value pairs"]

\* __ser_arg_parse: args[1] is the keyword and is skipped
SerArgParse(args) ==
    ArgParseFrom(args, 2,
        [dirs |-> <<>>, keys |-> <<>>, values |-> <<>>,
         if_encountered |-> FALSE, if_statement |-> "", err |-> ""])

---------------------------------------------------------------------------
\* Directive handlers: each replaces the current line by the generated text
\* and records the symbols it calls

SerVerbatim(s, args) ==
    [s EXCEPT !.line = <<Tail(args)>>]

\* the indentation of the statements of a directive
Tab(p) == IF p.if_statement # "" THEN "  " ELSE ""

\* __reg_shortcuts: the twelve arguments that a mnemonic stands for
RegShortcuts(shortcut) ==
    LET sc == Upper(shortcut)
        nb == "nboundlines"
    IN  CASE sc = "" ->
               <<"1", "1", "1", "1", "0", "0", "0", "0", "0", "0", "0", "0">>
          [] sc = "I" ->
               <<"ie", "1", "1", "1", nb, nb, "0", "0", "0", "0", "0", "0">>
          [] sc = "J" ->
               <<"1", "je", "1", "1", "0", "0", nb, nb, "0", "0", "0", "0">>
          [] sc = "J2" ->
               <<"1", "je", "2", "1", "0", "0", nb, nb, "0", "0", "0", "0">>
          [] sc = "K" ->
               <<"1", "1", "ke", "1", "0", "0", "0", "0", "0", "0", "0", "0">>
          [] sc = "K1" ->
               <<"1", "1", "ke1", "1", "0", "0", "0", "0", "0", "1", "0", "0">>
          [] sc = "IJ" ->
               <<"ie", "je", "1", "1", nb, nb, nb, nb, "0", "0", "0", "0">>
          [] sc = "IJ3" ->
               <<"ie", "je", "3", "1", nb, nb, nb, nb, "0", "0", "0", "0">>
          [] sc = "IK" ->
               <<"ie", "1", "ke", "1", nb, nb, "0", "0", "0", "0", "0", "0">>
          [] sc = "IK1" ->
               <<"ie", "1", "ke1", "1", nb, nb, "0", "0", "0", "1", "0", "0">>
          [] sc = "JK" ->
               <<"1", "je", "ke", "1", "0", "0", nb, nb, "0", "0", "0", "0">>
          [] sc = "JK1" ->
               <<"1", "je", "ke1", "1", "0", "0", nb, nb, "0", "1", "0", "0">>
          [] sc = "IJK" ->
               <<"ie", "je", "ke", "1", nb, nb, nb, nb, "0", "0", "0", "0">>
          [] sc = "IJK1" ->
               <<"ie", "je", "ke1", "1", nb, nb, nb, nb, "0", "1", "0", "0">>
          [] OTHER -> <<>>

\* the type table of the register directive
datatypes ==
    [integer |-> <<"'int'", "ppser_intlength">>,
     real |-> <<"ppser_realtype", "ppser_reallength">>]

\* ', '.join(dirs) + ')': the arguments of a call, as the words of the line
CommaWords(dirs) ==
    [i \in 1..Len(dirs) |-> dirs[i] \o (IF i < Len(dirs) THEN "," ELSE ")")]

\* the arguments of the register call, the twelve arguments put behind the
\* mnemonic instead of in its place
RegisterDirsAppend(dirs) ==
    LET typed == <<"'" \o dirs[1] \o "'">>
                 \o (IF dirs[2] = "integer" THEN datatypes.integer
                     ELSE datatypes.real)
                 \o SubSeq(dirs, 3, Len(dirs))
        l == IF Len(typed) = 4 THEN RegShortcuts(typed[4]) ELSE <<>>
    IN  typed \o l

\* the arguments of the register call, for the bare arguments of a directive
\* that names a type of the table
RegisterDirs(dirs) ==
    LET typed == <<"'" \o dirs[1] \o "'">>
                 \o (IF dirs[2] = "integer" THEN datatypes.integer
                     ELSE datatypes.real)
                 \o SubSeq(dirs, 3, Len(dirs))
        l == IF Len(typed) = 4 THEN RegShortcuts(typed[4]) ELSE <<>>
    IN  IF l # <<>> THEN SubSeq(typed, 1, 3) \o l ELSE typed

RegisterText(s, p) ==
    LET tab == Tab(p)
        dirs == IF Len(p.dirs) = 2 THEN Append(p.dirs, "") ELSE p.dirs
    IN  IF p.err # "" THEN ExitError(s, p.err)
        ELSE IF Len(p.dirs) < 2
        THEN ExitError(s, "Must specify a name, a type and the field sizes")
        ELSE IF dirs[2] \notin {"integer", "real"}
        THEN Uncaught(s, "KeyError: " \o dirs[2])
        ELSE IF Len(p.keys) > 0
        THEN ExitError(s, "Metainformation for fields are not yet implemented")
        ELSE [s EXCEPT
                 !.calls = @ \cup {methods.register},
                 !.line =
                 (IF p.if_statement # "" THEN <<IfLine(p.if_statement)>> ELSE <<>>)
                 \o << Ind(tab, <<"call", methods.register \o "(ppser_serializer,">>
                                \o CommaWords(RegisterDirs(dirs))) >>
                 \o (IF p.if_statement # "" THEN <<EndIfLine>> ELSE <<>>)]

SerRegister(s, args) == RegisterText(s, SerArgParse(args))

SerRegistertracers(s, args) ==
    [s EXCEPT !.line = << <<"call", "fs_RegisterAllTracers()">> >>,
              !.calls = @ \cup {methods.registertracers}]

ZeroText(s, p) ==
    LET tab == Tab(p)
    IN  IF p.err # "" THEN ExitError(s, p.err)
        ELSE IF Len(p.keys) > 0 THEN ExitError(s, "Must specify a list of fields")
        ELSE [s EXCEPT !.line =
                 (IF p.if_statement # "" THEN <<IfLine(p.if_statement)>> ELSE <<>>)
                 \o [i \in 1..Len(p.dirs) |->
                        Ind(tab, <<p.dirs[i], "=", "0.0_" \o real>>)]
                 \o (IF p.if_statement # "" THEN <<EndIfLine>> ELSE <<>>)]

SerZero(s, args) == ZeroText(s, SerArgParse(args))

SavepointText(s, p) ==
    LET tab == Tab(p)
    IN  IF p.err # "" THEN ExitError(s, p.err)
        ELSE IF Len(p.dirs) # 1
        THEN ExitError(s, "Must specify a name and a list of key=value pairs")
        ELSE [s EXCEPT
                 !.calls = @ \cup {methods.savepoint, methods.spinfo},
                 !.line =
                 (IF p.if_statement # "" THEN <<IfLine(p.if_statement)>> ELSE <<>>)
                 \o << Ind(tab, <<"call", methods.savepoint \o "('" \o p.dirs[1] \o "',",
                                  "ppser_savepoint)">>) >>
                 \o [i \in 1..Len(p.keys) |->
                        Ind(tab, <<"call", methods.spinfo \o "(ppser_savepoint,",
                                   "'" \o p.keys[i] \o "',", p.values[i] \o ")">>)]
                 \o (IF p.if_statement # "" THEN <<EndIfLine>> ELSE <<>>)]

SerSavepoint(s, args) == SavepointText(s, SerArgParse(args))

\* the loop of the data directive that appends every name, listed or not
RECURSIVE AppendAll(_, _)
AppendAll(lst, values) ==
    IF values = <<>> THEN lst
    ELSE AppendAll(Append(lst, StripSubscript(Head(values))), Tail(values))

\* the loop of the data directive that collects the names to rewrite
RECURSIVE AppendNew(_, _)
AppendNew(lst, values) ==
    IF values = <<>> THEN lst
    ELSE LET v == StripSubscript(Head(values)) IN
         AppendNew(IF v \in Range(lst) THEN lst ELSE Append(lst, v),
                   Tail(values))

DataWriteLines(tab, k, v) ==
    << Ind(tab \o "    ",
           <<"ACC_PREFIX", "UPDATE", "HOST", "(", v, "),", "IF", "(i_am_accel_node)">>),
       Ind(tab \o "    ",
           <<"call", methods.datawrite \o "(ppser_serializer,", "ppser_savepoint,",
             "'" \o k \o "',", v \o ")">>) >>

\* the read branch of a pair that leaves out the call that reads the field
DataReadLinesNoCall(tab, k, v) ==
    << Ind(tab \o "    ",
           <<"ACC_PREFIX", "UPDATE", "DEVICE", "(", v, "),", "IF", "(i_am_accel_node)">>) >>

DataReadLines(tab, k, v) ==
    << Ind(tab \o "    ",
           <<"call", methods.dataread \o "(ppser_serializer_ref,", "ppser_savepoint,",
             "'" \o k \o "',", v \o ")">>),
       Ind(tab \o "    ",
           <<"ACC_PREFIX", "UPDATE", "DEVICE", "(", v, "),", "IF", "(i_am_accel_node)">>) >>

DataText(s, p) ==
    LET tab == Tab(p)
        n == Len(p.keys)
    IN  IF p.err # "" THEN ExitError(s, p.err)
        ELSE IF Len(p.dirs) # 0
                /\ ~(Len(p.dirs) = 1 /\ "removeintentin" \in Range(p.dirs))
        THEN ExitError(s,
               "Must specify a list of key=value pairs with optional removeintentin")
        ELSE [s EXCEPT
                 !.calls = @ \cup {methods.datawrite, methods.dataread,
                                   methods.getmode},
                 !.intentin_to_remove =
                     IF "removeintentin" \in Range(p.dirs)
                     THEN AppendNew(@, p.values) ELSE @,
                 !.line =
                 (IF p.if_statement # "" THEN <<IfLine(p.if_statement)>> ELSE <<>>)
                 \o << Ind(tab, <<"SELECT", "CASE", "(", methods.getmode \o "()", ")">>),
                       Ind(tab \o "  ", <<"CASE(" \o modes.write \o ")">>) >>
                 \o Flatten([i \in 1..n |-> DataWriteLines(tab, p.keys[i], p.values[i])])
                 \o << Ind(tab \o "  ", <<"CASE(" \o modes.read \o ")">>) >>
                 \o Flatten([i \in 1..n |-> DataReadLines(tab, p.keys[i], p.values[i])])
                 \o << Ind(tab, <<"END", "SELECT">>) >>
                 \o (IF p.if_statement # "" THEN <<EndIfLine>> ELSE <<>>)]

SerData(s, args) == DataText(s, SerArgParse(args))

\* 'call ' + function + '(' + ', '.join(items) + ')', as the words of the line
CallWords(function, items) ==
    IF items = <<>> THEN <<"call", function \o "()">>
    ELSE <<"call">>
         \o [i \in 1..Len(items) |->
                (IF i = 1 THEN function \o "(" ELSE "") \o items[i]
                \o (IF i < Len(items) THEN "," ELSE ")")]

\* ','.join(names)
RECURSIVE JoinTight(_)
JoinTight(names) ==
    IF names = <<>> THEN ""
    ELSE IF Len(names) = 1 THEN names[1]
    ELSE names[1] \o "," \o JoinTight(Tail(names))

\* the position of the first 'if' among the tokens in lower case, or the
\* position behind the last token
IfPos(args) ==
    LET at == {i \in 1..Len(args) : Lower(args[i]) = "if"}
    IN  IF at = {} THEN Len(args) + 1
        ELSE CHOOSE i \in at : \A j \in at : i <= j

InitText(s, p, args) ==
    LET tab == Tab(p)
        bar == "'>>>>>>>>>>>>>>>>>><<<<<<<<<<<<<<<<<<'"
    IN  IF p.err # "" THEN ExitError(s, p.err)
        ELSE [s EXCEPT
                 !.calls = @ \cup {methods.init},
                 !.line =
                 (IF p.if_statement # "" THEN <<IfLine(p.if_statement)>> ELSE <<>>)
                 \o << Ind(tab, <<"PRINT", "*,", bar>>),
                       Ind(tab, <<"PRINT", "*,", "'>>>", "WARNING:",
                                  "SERIALIZATION", "IS", "ON", "<<<'">>),
                       Ind(tab, <<"PRINT", "*,", bar>>),
                       Ind(tab, <<>>),
                       Ind(tab, <<"!", "setup", "serialization", "environment">>),
                       Ind(tab, <<"call",
                                  methods.init \o "("
                                  \o JoinTight(SubSeq(args, 2, IfPos(args) - 1))
                                  \o ")">>) >>
                 \o (IF p.if_statement # "" THEN <<EndIfLine>> ELSE <<>>)]

SerInit(s, args) == InitText(s, SerArgParse(args), args)

\* the value of an option: the verbosity is switched by a number
OptionValue(k, v) ==
    IF Lower(k) = "verbosity"
    THEN IF Lower(v) = "off" THEN "0"
         ELSE IF Lower(v) = "on" THEN "1" ELSE v
    ELSE v

OptionText(s, p) ==
    IF p.err # "" THEN ExitError(s, p.err)
    ELSE IF Len(p.dirs) # 0
    THEN ExitError(s, "Must specify a name and a list of key=value pairs")
    ELSE [s EXCEPT
             !.calls = @ \cup {methods.option},
             !.line =
             (IF p.if_statement # "" THEN <<IfLine(p.if_statement)>> ELSE <<>>)
             \o << CallWords(methods.option,
                      [i \in 1..Len(p.keys) |->
                          p.keys[i] \o "=" \o OptionValue(p.keys[i], p.values[i])]) >>
             \o (IF p.if_statement # "" THEN <<EndIfLine>> ELSE <<>>)]

SerOption(s, args) == OptionText(s, SerArgParse(args))

\* one call that adds an item of information to the serializer
MetainfoLine(tab, k, v) ==
    Ind(tab, <<"CALL", methods.serinfo \o "(ppser_serializer,",
               "\"" \o k \o "\",", v \o ")">>)

MetainfoText(s, p) ==
    LET tab == Tab(p)
    IN  IF p.err # "" THEN ExitError(s, p.err)
        ELSE [s EXCEPT
                 !.calls = @ \cup {methods.serinfo},
                 !.line =
                 (IF p.if_statement # "" THEN <<IfLine(p.if_statement)>> ELSE <<>>)
                 \o [i \in 1..Len(p.keys) |->
                        MetainfoLine(tab, p.keys[i], p.values[i])]
                 \o [i \in 1..Len(p.dirs) |->
                        MetainfoLine(tab, p.dirs[i], p.dirs[i])]
                 \o (IF p.if_statement # "" THEN <<EndIfLine>> ELSE <<>>)]

SerMetainfo(s, args) == MetainfoText(s, SerArgParse(args))

\* the number of a mode of the table, or the argument as it is written
ModeNumber(a) ==
    CASE a = "write" -> modes.write [] a = "read" -> modes.read
      [] a = "CPU" -> modes.CPU [] a = "GPU" -> modes.GPU
      [] OTHER -> a

ModeText(s, p, args) ==
    LET tab == Tab(p)
    IN  IF p.err # "" THEN ExitError(s, p.err)
        ELSE IF Len(args) < 2 THEN Uncaught(s, "IndexError")
        ELSE [s EXCEPT
                 !.calls = @ \cup {methods.mode},
                 !.line =
                 (IF p.if_statement # "" THEN <<IfLine(p.if_statement)>> ELSE <<>>)
                 \o << Ind(tab, <<"call",
                                  methods.mode \o "(" \o ModeNumber(args[2]) \o ")">>) >>
                 \o (IF p.if_statement # "" THEN <<EndIfLine>> ELSE <<>>)]

SerMode(s, args) == ModeText(s, SerArgParse(args), args)

\* the groups of the pattern of a tracer specification: the tracer, its type
\* and its time level, or no group when the pattern does not match
TracerGroups(arg) ==
    CASE arg = "%all" -> <<"%all", "", "">>
      [] arg = "$1-3#tens@nnow" -> <<"$1-3", "tens", "nnow">>
      [] arg = "$2" -> <<"$2", "", "">>
      [] arg = "qv@nnew" -> <<"qv", "", "nnew">>
      [] arg = "#bd" -> <<>>
      [] OTHER -> <<arg, "", "">>

\* the indices behind the dollar sign, split at the dash
TracerIdxs(name) ==
    CASE name = "$1-3" -> <<"1", "3">>
      [] name = "$2" -> <<"2">>
      [] OTHER -> <<>>

RECURSIVE TracerParseFrom(_, _, _)
TracerParseFrom(args, i, acc) ==
    IF i > Len(args) \/ acc.err # "" THEN acc
    ELSE
      LET arg == args[i] IN
      IF Upper(arg) = "IF"
      THEN TracerParseFrom(args, i + 1, [acc EXCEPT !.if_encountered = TRUE])
      ELSE IF acc.if_encountered
      THEN IF acc.if_statement # ""
           THEN [acc EXCEPT !.err = "IF statement must be last argument"]
           ELSE TracerParseFrom(args, i + 1, [acc EXCEPT !.if_statement = arg])
      ELSE IF TracerGroups(arg) = <<>>
      THEN [acc EXCEPT
               !.err = "Tracer specification " \o arg \o " is invalid"]
      ELSE TracerParseFrom(args, i + 1,
               [acc EXCEPT !.tracersspec = Append(@, TracerGroups(arg))])

\* __ser_tracer_parse
SerTracerParse(args) ==
    TracerParseFrom(args, 2,
        [tracersspec |-> <<>>, if_encountered |-> FALSE, if_statement |-> "",
         err |-> ""])

\* the function that writes the tracers of a specification
TracerFunction(t) ==
    "ppser_write_tracer_"
    \o (IF t[1] = "%all" THEN "all"
        ELSE IF TracerIdxs(t[1]) # <<>> THEN "bx_idx" ELSE "by_name")

\* the arguments of the call for a specification
TracerFargs(t) ==
    (IF t[1] = "%all" THEN <<>>
     ELSE IF TracerIdxs(t[1]) # <<>> THEN TracerIdxs(t[1])
     ELSE <<"'" \o t[1] \o "'">>)
    \o <<"stype='" \o t[2] \o "'">>
    \o (IF t[3] # "" THEN <<"timelevel=" \o t[3]>> ELSE <<>>)

TracerText(s, p) ==
    LET tab == Tab(p)
    IN  IF p.err # "" THEN ExitError(s, p.err)
        ELSE [s EXCEPT
                 !.calls = @ \cup {TracerFunction(p.tracersspec[i]) :
                                      i \in 1..Len(p.tracersspec)},
                 !.line =
                 (IF p.if_statement # "" THEN <<IfLine(p.if_statement)>> ELSE <<>>)
                 \o [i \in 1..Len(p.tracersspec) |->
                        Ind(tab, CallWords(TracerFunction(p.tracersspec[i]),
                                           TracerFargs(p.tracersspec[i])))]
                 \o (IF p.if_statement # "" THEN <<EndIfLine>> ELSE <<>>)]

SerTracer(s, args) == TracerText(s, SerTracerParse(args))

SerCleanup(s, args) ==
    [s EXCEPT
        !.line = << <<"!", "cleanup", "serialization", "environment">>,
                    <<"call", methods.cleanup \o "(" \o JoinTight(Tail(args))
                              \o ")">> >>,
        !.calls = @ \cup {methods.cleanup}]

\* the ON directive that assigns the set of calls instead of adding to it
SerOnOnly(s, args) ==
    [s EXCEPT !.line = << <<"call", methods.on \o "()">> >>,
              !.calls = {methods.on}]

SerOn(s, args) ==
    [s EXCEPT !.line = << <<"call", methods.on \o "()">> >>,
              !.calls = @ \cup {methods.on}]

SerOff(s, args) ==
    [s EXCEPT !.line = << <<"call", methods.off \o "()">> >>,
              !.calls = @ \cup {methods.off}]

---------------------------------------------------------------------------
\* Line recognizers

\* ^ *(module|program) +NAME matches at the start of the string
IsModuleLine(l) ==
    /\ Len(FirstLine(l)) >= 2
    /\ Upper(FirstLine(l)[1]) \in {"MODULE", "PROGRAM"}

\* __re_module that takes a unit opened in an open unit
ReModuleNested(s) ==
    IF s.err # "" \/ ~IsModuleLine(s.line) THEN s
    ELSE IF Upper(s.line[1][2]) = "PROCEDURE" THEN s
    ELSE [s EXCEPT !.module = s.line[1][2]]

\* __re_module
ReModule(s) ==
    IF s.err # "" \/ ~IsModuleLine(s.line) THEN s
    ELSE IF Upper(s.line[1][2]) = "PROCEDURE" THEN s
    ELSE IF s.module # "" THEN ExitError(s, "Unexpected module statement")
    ELSE [s EXCEPT !.module = s.line[1][2]]

\* ^ *implicit +none matches at the start of the string
IsImplicitLine(l) ==
    /\ Len(FirstLine(l)) >= 2
    /\ Upper(FirstLine(l)[1]) = "IMPLICIT"
    /\ Upper(FirstLine(l)[2]) = "NONE"

auxiliarySymbols ==
    <<"ppser_savepoint", "ppser_serializer", "ppser_serializer_ref",
      "ppser_intlength", "ppser_reallength", "ppser_realtype">>

\* the import block of an anchor line, for the calls in their iteration order
ImportBlock(s, ord) ==
    LET calls_pp == SelectSeq(ord, LAMBDA c : StartsWithPpser(c))
                    \o auxiliarySymbols
        calls_fs == SelectSeq(ord, LAMBDA c : ~StartsWithPpser(c))
    IN  << <<>> >>
        \o (IF s.ifdef # "" THEN << <<"#ifdef", s.ifdef>> >> ELSE <<>>)
        \o (IF Len(calls_fs) > 0
            THEN << <<"USE", serModule \o ",", "ONLY:">> \o calls_fs >>
            ELSE <<>>)
        \o << <<"USE", "utils_ppser,", "ONLY:">> \o calls_pp >>
        \o (IF s.ifdef # "" THEN << <<"#endif">> >> ELSE <<>>)
        \o << <<>> >>

\* __re_implicit that forgets that the import block is written already
ReImplicitAgain(s, ord) ==
    IF s.err # "" \/ ~IsImplicitLine(s.line) THEN s
    ELSE IF Len(ord) > 0
    THEN [s EXCEPT !.line = ImportBlock(s, ord) \o @,
                   !.implicitnone_done = TRUE, !.implicitnone_found = TRUE]
    ELSE [s EXCEPT !.implicitnone_found = TRUE]

\* __re_implicit that does not look whether there are calls to import
ReImplicitUnchecked(s, ord) ==
    IF s.err # "" \/ ~IsImplicitLine(s.line) THEN s
    ELSE IF ~s.implicitnone_done
    THEN [s EXCEPT !.line = ImportBlock(s, ord) \o @,
                   !.implicitnone_done = TRUE, !.implicitnone_found = TRUE]
    ELSE [s EXCEPT !.implicitnone_found = TRUE]

\* __re_implicit that lists every call in the import of the library
ReImplicitUnfiltered(s, ord) ==
    IF s.err # "" \/ ~IsImplicitLine(s.line) THEN s
    ELSE IF Len(ord) > 0 /\ ~s.implicitnone_done
    THEN [s EXCEPT
            !.line = << <<>> >>
                     \o (IF s.ifdef # "" THEN << <<"#ifdef", s.ifdef>> >> ELSE <<>>)
                     \o << <<"USE", serModule \o ",", "ONLY:">> \o ord >>
                     \o << <<"USE", "utils_ppser,", "ONLY:">>
                           \o SelectSeq(ord, LAMBDA c : StartsWithPpser(c))
                           \o auxiliarySymbols >>
                     \o (IF s.ifdef # "" THEN << <<"#endif">> >> ELSE <<>>)
                     \o << <<>> >> \o @,
            !.implicitnone_done = TRUE, !.implicitnone_found = TRUE]
    ELSE [s EXCEPT !.implicitnone_found = TRUE]

\* __re_implicit that records the anchor only when it writes no import block
ReImplicitFoundElse(s, ord) ==
    IF s.err # "" \/ ~IsImplicitLine(s.line) THEN s
    ELSE IF Len(ord) > 0 /\ ~s.implicitnone_done
    THEN [s EXCEPT !.line = ImportBlock(s, ord) \o @,
                   !.implicitnone_done = TRUE]
    ELSE [s EXCEPT !.implicitnone_found = TRUE]

\* __re_implicit; ord is the order in which the set of calls is iterated
ReImplicit(s, ord) ==
    IF s.err # "" \/ ~IsImplicitLine(s.line) THEN s
    ELSE
      LET calls_pp0 == SelectSeq(ord, LAMBDA c : StartsWithPpser(c))
          calls_fs == SelectSeq(ord, LAMBDA c : ~StartsWithPpser(c))
          ncalls == Len(calls_pp0) + Len(calls_fs)
          calls_pp == IF ncalls > 0 THEN calls_pp0 \o auxiliarySymbols
                      ELSE calls_pp0
          l == << <<>> >>
               \o (IF s.ifdef # "" THEN << <<"#ifdef", s.ifdef>> >> ELSE <<>>)
               \o (IF Len(calls_fs) > 0
                   THEN << <<"USE", serModule \o ",", "ONLY:">> \o calls_fs >>
                   ELSE <<>>)
               \o (IF Len(calls_pp) > 0
                   THEN << <<"USE", "utils_ppser,", "ONLY:">> \o calls_pp >>
                   ELSE <<>>)
               \o (IF s.ifdef # "" THEN << <<"#endif">> >> ELSE <<>>)
               \o << <<>> >>
      IN  IF ncalls > 0 /\ ~s.implicitnone_done
          THEN [s EXCEPT !.line = l \o @, !.implicitnone_done = TRUE,
                         !.implicitnone_found = TRUE]
          ELSE [s EXCEPT !.implicitnone_found = TRUE]

\* ^ *end *(module|program) NAME matches at the start of the string
IsEndmoduleLine(l) ==
    /\ Len(FirstLine(l)) >= 3
    /\ Upper(FirstLine(l)[1]) = "END"
    /\ Upper(FirstLine(l)[2]) \in {"MODULE", "PROGRAM"}

\* __re_endmodule
ReEndmodule(s) ==
    IF s.err # "" \/ ~IsEndmoduleLine(s.line) THEN s
    ELSE IF s.module = ""
    THEN ExitError(s, "Unexpected end module statement")
    ELSE IF s.module # s.line[1][3]
    THEN ExitError(s, "Was expecting end module " \o s.module)
    ELSE [s EXCEPT !.module = ""]

\* .*intent *\(in\)[^:]*::\s+(.*) matches a line: an input-only declaration
IsDefTextLine(tl) ==
    \E i, j \in 1..Len(tl) :
        /\ i < j /\ j < Len(tl)
        /\ Upper(tl[i]) = ", INTENT(IN)"
        /\ tl[j] = "::"

IsDefLine(l) == \E n \in 1..Len(l) : IsDefTextLine(l[n])

\* the declared names: the words behind the :: of the declaration
DeclaredNames(tl) ==
    LET j == CHOOSE j \in 1..Len(tl) :
                 tl[j] = "::" /\ \A k \in 1..(j - 1) : tl[k] # "::"
        e == IF \E k \in (j + 1)..Len(tl) : tl[k] = "::"
             THEN (CHOOSE k \in (j + 1)..Len(tl) :
                      tl[k] = "::" /\ \A m \in (j + 1)..(k - 1) : tl[m] # "::") - 1
             ELSE Len(tl)
    IN  {StripDim(tl[k]) : k \in (j + 1)..e}

\* re.sub(r', *intent *\(in\)', '', line): the declaration without the attribute
StripIntentIn(tl) == SelectSeq(tl, LAMBDA w : Upper(w) # ", INTENT(IN)")

\* __re_def that replaces the declaration by its stripped variant only
ReDefStripOnly(s) ==
    IF s.err # "" \/ ~IsDefLine(s.line) THEN s
    ELSE
      LET var == DeclaredNames(Flatten(s.line))
          fields_in_this_line ==
              SelectSeq(s.intentin_to_remove, LAMBDA x : x \in var)
          removed ==
              s.intentin_removed
              \o SelectSeq(fields_in_this_line,
                           LAMBDA x : x \notin Range(s.intentin_removed))
      IN  IF fields_in_this_line # <<>>
          THEN [s EXCEPT
                  !.intentin_removed = removed,
                  !.line = [n \in 1..Len(s.line) |-> StripIntentIn(s.line[n])]]
          ELSE [s EXCEPT !.intentin_removed = removed]

\* the rewriter that records every requested name of a line, recorded or not
ReDefExtendAll(s) ==
    IF s.err # "" \/ ~IsDefLine(s.line) THEN s
    ELSE
      LET var == DeclaredNames(Flatten(s.line))
          fields_in_this_line ==
              SelectSeq(s.intentin_to_remove, LAMBDA x : x \in var)
          removed == s.intentin_removed \o fields_in_this_line
      IN  IF fields_in_this_line # <<>>
          THEN [s EXCEPT
                  !.intentin_removed = removed,
                  !.line = << <<"#ifdef", s.ifdef>> >>
                           \o [n \in 1..Len(s.line) |-> StripIntentIn(s.line[n])]
                           \o << <<"#else">> >> \o s.line \o << <<"#endif">> >>]
          ELSE [s EXCEPT !.intentin_removed = removed]

\* __re_def
ReDef(s) ==
    IF s.err # "" \/ ~IsDefLine(s.line) THEN s
    ELSE
      LET var == DeclaredNames(Flatten(s.line))
          fields_in_this_line ==
              SelectSeq(s.intentin_to_remove, LAMBDA x : x \in var)
          removed ==
              s.intentin_removed
              \o SelectSeq(fields_in_this_line,
                           LAMBDA x : x \notin Range(s.intentin_removed))
      IN  IF fields_in_this_line # <<>>
          THEN [s EXCEPT
                  !.intentin_removed = removed,
                  !.line = << <<"#ifdef", s.ifdef>> >>
                           \o [n \in 1..Len(s.line) |-> StripIntentIn(s.line[n])]
                           \o << <<"#else">> >> \o s.line \o << <<"#endif">> >>]
          ELSE [s EXCEPT !.intentin_removed = removed]

\* the text behind the directive marker in the first word of a directive line
MarkerRest(w) ==
    CASE Upper(w) = "!$SER" -> ""
      [] Upper(w) = "!$SER&" -> "&"
      [] w = Glue("!$ser") -> "!$SER&"
      [] w = Glue("!$SER") -> "!$SER&"
      [] OTHER -> "?"

\* ^ *!\$ser *(.*)$ matches a string of one line that starts with the marker
IsSerLine(l) ==
    /\ Len(l) = 1
    /\ Len(l[1]) >= 1
    /\ MarkerRest(l[1][1]) # "?"

\* the tokens of a directive line: the words behind the marker
SerArgs(l) ==
    (IF MarkerRest(l[1][1]) = "" THEN <<>> ELSE <<MarkerRest(l[1][1])>>)
    \o Tail(l[1])

\* the dispatch that compares the keyword as it is written
DispatchExact(s, args) ==
    IF args = <<>> THEN s
    ELSE IF args[1] \in language.init THEN SerInit(s, args)
    ELSE IF args[1] \in language.option THEN SerOption(s, args)
    ELSE IF args[1] \in language.metainfo THEN SerMetainfo(s, args)
    ELSE IF args[1] \in language.verbatim THEN SerVerbatim(s, args)
    ELSE IF args[1] \in language.register THEN SerRegister(s, args)
    ELSE IF args[1] \in language.savepoint THEN SerSavepoint(s, args)
    ELSE IF args[1] \in language.zero THEN SerZero(s, args)
    ELSE IF args[1] \in language.data THEN SerData(s, args)
    ELSE IF args[1] \in language.tracer THEN SerTracer(s, args)
    ELSE IF args[1] \in language.registertracers
    THEN SerRegistertracers(s, args)
    ELSE IF args[1] \in language.cleanup THEN SerCleanup(s, args)
    ELSE IF args[1] \in language.on THEN SerOn(s, args)
    ELSE IF args[1] \in language.off THEN SerOff(s, args)
    ELSE IF args[1] \in language.mode THEN SerMode(s, args)
    ELSE ExitError(s, "Unknown directive encountered")

\* the dispatch on the keyword of a directive
Dispatch(s, args) ==
    IF args = <<>> THEN s
    ELSE IF Upper(args[1]) \in language.init THEN SerInit(s, args)
    ELSE IF Upper(args[1]) \in language.option THEN SerOption(s, args)
    ELSE IF Upper(args[1]) \in language.metainfo THEN SerMetainfo(s, args)
    ELSE IF Upper(args[1]) \in language.verbatim THEN SerVerbatim(s, args)
    ELSE IF Upper(args[1]) \in language.register THEN SerRegister(s, args)
    ELSE IF Upper(args[1]) \in language.savepoint THEN SerSavepoint(s, args)
    ELSE IF Upper(args[1]) \in language.zero THEN SerZero(s, args)
    ELSE IF Upper(args[1]) \in language.data THEN SerData(s, args)
    ELSE IF Upper(args[1]) \in language.tracer THEN SerTracer(s, args)
    ELSE IF Upper(args[1]) \in language.registertracers
    THEN SerRegistertracers(s, args)
    ELSE IF Upper(args[1]) \in language.cleanup THEN SerCleanup(s, args)
    ELSE IF Upper(args[1]) \in language.on THEN SerOn(s, args)
    ELSE IF Upper(args[1]) \in language.off THEN SerOff(s, args)
    ELSE IF Upper(args[1]) \in language.mode THEN SerMode(s, args)
    ELSE ExitError(s, "Unknown directive encountered")

\* __re_ser
ReSer(s) ==
    IF s.err # "" \/ ~IsSerLine(s.line) THEN s
    ELSE Dispatch(s, SerArgs(s.line))

\* the guard that opens before every line of directives
GuardReopens(s, matched) ==
    IF s.err # "" THEN s
    ELSE IF matched
    THEN IF s.ifdef # ""
         THEN [s EXCEPT !.line = << <<"#ifdef", s.ifdef>> >> \o @, !.ser = TRUE]
         ELSE s
    ELSE IF s.ifdef # "" /\ s.ser
         THEN [s EXCEPT !.line = << <<"#endif">> >> \o @, !.ser = FALSE]
         ELSE s

\* the guard around the lines of directives
Guard(s, matched) ==
    IF s.err # "" THEN s
    ELSE IF matched
    THEN IF s.ifdef # "" /\ ~s.ser
         THEN [s EXCEPT !.line = << <<"#ifdef", s.ifdef>> >> \o @, !.ser = TRUE]
         ELSE s
    ELSE IF s.ifdef # "" /\ s.ser
         THEN [s EXCEPT !.line = << <<"#endif">> >> \o @, !.ser = FALSE]
         ELSE s

\* the directives of the line and the guard around them
GuardedSer(s) == Guard(ReSer(s), IsSerLine(s.line))

\* the consistency checks of the final call, the check of the anchor left out
FinalChecksNoAnchor(s, final) ==
    IF s.err # "" \/ ~final THEN s
    ELSE IF s.ser
    THEN ExitError(s, "Unterminated #ifdef " \o s.ifdef \o " encountered")
    ELSE IF s.module # ""
    THEN ExitError(s, "Unterminated module or program unit encountered")
    ELSE s

\* the consistency checks of the final call
FinalChecks(s, final) ==
    IF s.err # "" \/ ~final THEN s
    ELSE IF s.ser
    THEN ExitError(s, "Unterminated #ifdef " \o s.ifdef \o " encountered")
    ELSE IF s.module # ""
    THEN ExitError(s, "Unterminated module or program unit encountered")
    ELSE IF Cardinality(s.calls) > 0 /\ ~s.implicitnone_found
    THEN ExitError(s, "No IMPLICIT NONE statement found in code")
    ELSE s

\* lexer: evaluate one line
Lexer(s, ord, final) ==
    FinalChecks(GuardedSer(ReDef(ReEndmodule(ReImplicit(ReModule(s), ord)))),
                final)

---------------------------------------------------------------------------
\* The parsing pass

\* ^ *!\$ser& matches, in any letter case: the line continues a directive
IsContinuationLine(pl) ==
    /\ Len(pl) >= 2
    /\ Upper(pl[1]) = "!$SER&"

\* re.sub('^ *!\$ser& *', ' ', line, re.IGNORECASE): the flag is taken as the
\* count argument, so that the prefix is replaced in lower case only
SubPrefix(pl) ==
    IF pl[1] = "!$ser&" THEN [stripped |-> TRUE, words |-> Tail(pl)]
    ELSE [stripped |-> FALSE, words |-> pl]

\* self.__line += line, for a pending line: the blank that replaces the
\* prefix separates the words, a line that kept its prefix extends the last word
JoinLine(pending, pl) ==
    LET sub == SubPrefix(pl)
        pw == pending[1]
    IN  IF sub.stripped THEN << pw \o sub.words >>
        ELSE << Front(pw) \o <<Last(pw) \o sub.words[1]>> \o Tail(sub.words) >>

\* ^ *!\$ser *(.*) & *$ matches: the directive line goes on
IsContinued(l) ==
    /\ IsSerLine(l)
    /\ Len(l[1]) >= 2
    /\ Last(l[1]) = "&"

\* the next line coming in: it continues the pending line, or is the line
NextLineIn(s, pl) ==
    IF s.line # <<>>
    THEN IF IsContinuationLine(pl)
         THEN [s EXCEPT !.line = JoinLine(s.line, pl), !.linenum = @ + 1]
         ELSE ExitError(s, "Incorrect line continuation encountered")
    ELSE [s EXCEPT !.line = <<pl>>, !.linenum = @ + 1]

\* the parsed line goes to the output buffer and the current line is cleared
EmitLine(s, gen) ==
    IF s.err # "" THEN s
    ELSE [s EXCEPT !.outputBuffer = IF gen THEN @ \o s.line ELSE @,
                   !.line = <<>>]

\* the continued line going out, or the line being parsed
LineOut(s, ord, gen) ==
    IF s.err # "" THEN s
    ELSE IF IsContinued(s.line)
    THEN [s EXCEPT !.line = << Front(s.line[1]) >>]
    ELSE EmitLine(Lexer(s, ord, FALSE), gen)

\* the body of the loop over the lines of the file
LoopBody(s, pl, ord, gen) == LineOut(NextLineIn(s, pl), ord, gen)

RECURSIVE JoinComma(_)
JoinComma(names) ==
    IF names = <<>> THEN ""
    ELSE IF Len(names) = 1 THEN names[1]
    ELSE names[1] \o ", " \o JoinComma(Tail(names))

\* the check made at the end of the analysis pass as well
ConsistencyCheckAnyPass(s, gen) ==
    LET diff == SelectSeq(s.intentin_to_remove,
                          LAMBDA x : x \notin Range(s.intentin_removed))
    IN  IF s.err # "" THEN s
        ELSE IF Len(s.intentin_to_remove) # Len(s.intentin_removed)
        THEN ExitError(s, "cannot find INTENT(IN) declaration for "
                          \o JoinComma(diff))
        ELSE s

\* the check that every requested declaration has been rewritten
ConsistencyCheck(s, gen) ==
    LET diff == SelectSeq(s.intentin_to_remove,
                          LAMBDA x : x \notin Range(s.intentin_removed))
    IN  IF s.err # "" THEN s
        ELSE IF gen /\ Len(s.intentin_to_remove) # Len(s.intentin_removed)
        THEN ExitError(s, "cannot find INTENT(IN) declaration for "
                          \o JoinComma(diff))
        ELSE s

\* the end of parse(): the final call of the lexer and the consistency check
ParseEnd(s, ord, gen) == ConsistencyCheck(Lexer(s, ord, TRUE), gen)

\* the orders in which a line iterates the set of calls
IterationOrders(s, l) ==
    IF IsImplicitLine(l) THEN Orders(s.calls) ELSE {<<>>}

---------------------------------------------------------------------------
\* The input files

Lines ==
    { <<"module", "a">>, <<"end", "module", "a">>, <<"end", "module", "b">>,
      <<"implicit", "none">>, <<"x">>,
      <<"real", ", intent(in)", "::", "v(3)">>,
      <<"!$ser", "on">>, <<"!$ser", "zero", "a">>,
      <<"!$SER", "DATA", "removeintentin", "k=v(:)">> }

\* lines of files with requests to rewrite declarations
RemoveLines ==
    { <<"implicit", "none">>, <<"x">>,
      <<"!$ser", "data", "removeintentin", "k=v(:)", "j=w">>,
      <<"real", ", intent(in)", "::", "v(3)">>,
      <<"real", ", intent(in)", "::", "w">>,
      <<"real", ", intent(in)", "::", "v(3)", "w">> }

\* lines of files with directives that continue over several lines
ContLines ==
    { <<"implicit", "none">>, <<"x">>,
      <<"!$ser", "data", "a=b", "&">>,
      <<"!$ser&", "c=d", "&">>,
      <<"!$ser&", "e=f">>,
      <<"!$SER&", "e=f">> }

Configurations == {"SERIALIZE", ""}

---------------------------------------------------------------------------
\* Actions

\* the state after construction, for one of the given files
InitFiles(files) ==
    /\ file \in files
    /\ ifdef \in Configurations
    /\ pc = "parse"
    /\ generate = FALSE
    /\ pos = 1
    /\ ser = FALSE
    /\ line = <<>>
    /\ linenum = 0
    /\ module = ""
    /\ calls = {}
    /\ outputBuffer = <<>>
    /\ implicitnone_found = FALSE
    /\ implicitnone_done = FALSE
    /\ intentin_to_remove = <<>>
    /\ intentin_removed = <<>>
    /\ err = ""
    /\ errline = 0
    /\ traceback = FALSE
    /\ wrote = FALSE
    /\ written = <<>>
    /\ run = 1
    /\ prevWritten = <<>>

\* the state after construction, for a file over the given lines
InitOver(alphabet) == InitFiles(SeqsUpTo(alphabet, MaxLines))

Init == InitOver(Lines)

\* the object takes the fields of the record
AssignFields(s) ==
    /\ ser' = s.ser
    /\ line' = s.line
    /\ linenum' = s.linenum
    /\ module' = s.module
    /\ calls' = s.calls
    /\ outputBuffer' = s.outputBuffer
    /\ implicitnone_found' = s.implicitnone_found
    /\ implicitnone_done' = s.implicitnone_done
    /\ intentin_to_remove' = s.intentin_to_remove
    /\ intentin_removed' = s.intentin_removed
    /\ err' = s.err
    /\ errline' = s.errline
    /\ traceback' = s.traceback

\* the loop goes on, unless the program has left with an error
Assign(s) ==
    /\ AssignFields(s)
    /\ pc' = IF s.err # "" THEN "exit" ELSE "loop"

\* the pass ends: preprocess() goes on with the second pass or with the output
AssignEnd(s) ==
    /\ AssignFields(s)
    /\ pc' = IF s.err # "" THEN "exit"
             ELSE IF generate THEN "write" ELSE "parse"
    /\ generate' = IF s.err = "" THEN TRUE ELSE generate

\* parse() that also empties the set of calls
ParseResetCalls ==
    /\ pc = "parse"
    /\ ser' = FALSE
    /\ line' = <<>>
    /\ linenum' = 0
    /\ module' = ""
    /\ calls' = {}
    /\ outputBuffer' = <<>>
    /\ implicitnone_found' = FALSE
    /\ implicitnone_done' = FALSE
    /\ pos' = 1
    /\ pc' = "loop"
    /\ UNCHANGED <<file, ifdef, generate, intentin_to_remove,
                   intentin_removed, err, errline, traceback, wrote, written,
                   run, prevWritten>>

\* parse(): reset the flags of the parser and open the file
ParseReset ==
    /\ pc = "parse"
    /\ ser' = FALSE
    /\ line' = <<>>
    /\ linenum' = 0
    /\ module' = ""
    /\ outputBuffer' = <<>>
    /\ implicitnone_found' = FALSE
    /\ implicitnone_done' = FALSE
    /\ pos' = 1
    /\ pc' = "loop"
    /\ UNCHANGED <<file, ifdef, generate, calls, intentin_to_remove,
                   intentin_removed, err, errline, traceback, wrote, written,
                   run, prevWritten>>

\* parse(): one iteration of the loop over the lines of the file
ReadLine ==
    /\ pc = "loop"
    /\ pos <= Len(file)
    /\ \E ord \in IterationOrders(Self, IF line = <<>> THEN <<file[pos]>> ELSE line) :
          Assign(LoopBody(Self, file[pos], ord, generate))
    /\ pos' = pos + 1
    /\ UNCHANGED <<file, ifdef, generate, wrote, written, run, prevWritten>>

\* parse(): the end of the file
EndOfFile ==
    /\ pc = "loop"
    /\ pos > Len(file)
    /\ \E ord \in IterationOrders(Self, line) :
          AssignEnd(ParseEnd(Self, ord, generate))
    /\ UNCHANGED <<file, ifdef, pos, wrote, written, run, prevWritten>>

\* preprocess() that emits the output buffer of a failed pass as well
WriteOutputAnyway ==
    /\ pc \in {"write", "exit"}
    /\ ~wrote
    /\ wrote' = TRUE
    /\ written' = outputBuffer
    /\ pc' = IF pc = "write" THEN "done" ELSE pc
    /\ UNCHANGED <<file, ifdef, generate, pos, ser, line, linenum, module,
                   calls, outputBuffer, implicitnone_found, implicitnone_done,
                   intentin_to_remove, intentin_removed, err, errline,
                   traceback, run, prevWritten>>

\* preprocess(): write or print the output buffer
WriteOutput ==
    /\ pc = "write"
    /\ wrote' = TRUE
    /\ written' = outputBuffer
    /\ pc' = "done"
    /\ UNCHANGED <<file, ifdef, generate, pos, ser, line, linenum, module,
                   calls, outputBuffer, implicitnone_found, implicitnone_done,
                   intentin_to_remove, intentin_removed, err, errline,
                   traceback, run, prevWritten>>

Next == ParseReset \/ ReadLine \/ EndOfFile \/ WriteOutput

Spec == Init /\ [][Next]_vars

InitRemove == InitOver(RemoveLines)

SpecRemove == InitRemove /\ [][Next]_vars

InitCont == InitOver(ContLines)

SpecCont == InitCont /\ [][Next]_vars

\* lines of files with directives that carry a conditional clause
ArgLines ==
    { <<"implicit", "none">>, <<"x">>,
      <<"!$ser", "zero", "a", "if", "c">>,
      <<"!$ser", "zero", "a", "b", "IF", "c", "d">>,
      <<"!$ser", "zero", "a", "IF", "c", "IF">>,
      <<"!$ser", "zero", "a", "IF", "c", "if", "d">> }

InitArgs == InitOver(ArgLines)

SpecArgs == InitArgs /\ [][Next]_vars

\* lines of files that register fields
RegLines ==
    { <<"implicit", "none">>,
      <<"!$SER", "REG", "u", "real", "IJK">>,
      <<"!$SER", "REGISTER", "u", "real", "ie", "je", "ke", "1",
        "nboundlines", "nboundlines", "nboundlines", "nboundlines",
        "0", "0", "0", "0">>,
      <<"!$ser", "reg", "w", "integer", "k1", "if", "c">>,
      <<"!$SER", "REGISTER", "dts", "real">>,
      <<"!$SER", "REGISTER", "nlastbound", "integer", "7">>,
      <<"!$SER", "REG", "u", "fs_realtype", "IJK">> }

InitReg == InitOver(RegLines)

SpecReg == InitReg /\ [][Next]_vars

\* lines of files with data directives
DataLines ==
    { <<"implicit", "none">>, <<"x">>,
      <<"real", ", intent(in)", "::", "v(3)">>,
      <<"!$ser", "data", "a=b">>,
      <<"!$SER", "DATA", "a=b", "c=d", "IF", "c">>,
      <<"!$ser", "dat", "removeintentin", "k=v(:)", "e=f">> }

InitData == InitOver(DataLines)

SpecData == InitData /\ [][Next]_vars

\* lines of files whose directives mix bare arguments and key=value pairs
TokLines ==
    { <<"implicit", "none">>, <<"x">>,
      <<"!$SER", "METAINFO", "c=d", "a", "e=f", "b">>,
      <<"!$ser", "sav", "e=f", "sp", "a=b">>,
      <<"!$ser", "data", "a=b", "a=b=c">>,
      <<"!$ser", "zero", "a", "b", "IF", "a=b=c">> }

InitTok == InitOver(TokLines)

SpecTok == InitTok /\ [][Next]_vars

\* lines of files with a directive of every kind, with and without a clause
KindLines ==
    { <<"implicit", "none">>,
      <<"!$ser", "init", "a=b">>,
      <<"!$SER", "INI", "a=b", "c", "IF", "c">>,
      <<"!$ser", "opt", "verbosity=on">>,
      <<"!$SER", "OPTION", "a=b", "VERBOSITY=OFF", "IF", "c">>,
      <<"!$ser", "metainfo", "a=b", "c">>,
      <<"!$SER", "METAINFO", "a=b", "IF", "c">>,
      <<"!$ser", "verbatim", "x">>,
      <<"!$SER", "REGISTER", "dts", "real">>,
      <<"!$ser", "reg", "w", "integer", "k1", "if", "c">>,
      <<"!$ser", "sav", "sp", "a=b">>,
      <<"!$SER", "SAVEPOINT", "sp", "IF", "c">>,
      <<"!$ser", "Zero", "a">>,
      <<"!$SER", "ZER", "a", "b", "IF", "c">>,
      <<"!$ser", "data", "a=b">>,
      <<"!$SER", "DAT", "a=b", "IF", "c">>,
      <<"!$ser", "tracer", "%all", "qv@nnew">>,
      <<"!$SER", "TRA", "$1-3#tens@nnow", "IF", "c">>,
      <<"!$ser", "registertracers">>,
      <<"!$ser", "cleanup">>,
      <<"!$ser", "on">>,
      <<"!$SER", "OFF">>,
      <<"!$ser", "mode", "write">>,
      <<"!$SER", "MOD", "7", "IF", "c">>,
      <<"!$ser", "bogus">> }

InitKinds == InitFiles(SeqsUpTo(KindLines, MaxKindLines))

SpecKinds == InitKinds /\ [][Next]_vars

\* the program is run again on the same file with the same configuration
Rerun ==
    /\ pc = "done"
    /\ run = 1
    /\ run' = run + 1
    /\ prevWritten' = written
    /\ pc' = "parse"
    /\ generate' = FALSE
    /\ pos' = 1
    /\ ser' = FALSE
    /\ line' = <<>>
    /\ linenum' = 0
    /\ module' = ""
    /\ calls' = {}
    /\ outputBuffer' = <<>>
    /\ implicitnone_found' = FALSE
    /\ implicitnone_done' = FALSE
    /\ intentin_to_remove' = <<>>
    /\ intentin_removed' = <<>>
    /\ err' = ""
    /\ errline' = 0
    /\ traceback' = FALSE
    /\ wrote' = FALSE
    /\ written' = <<>>
    /\ UNCHANGED <<file, ifdef>>

NextRerun == Next \/ Rerun

SpecRerun == Init /\ [][NextRerun]_vars

TypeOK ==
    /\ pc \in {"parse", "loop", "write", "done", "exit"}
    /\ generate \in BOOLEAN
    /\ ser \in BOOLEAN
    /\ pos \in 1..(Len(file) + 1)
    /\ linenum \in 0..Len(file)

---------------------------------------------------------------------------
\* Properties of the import block

IsGuardOpen(tl) == Len(tl) >= 1 /\ tl[1] = "#ifdef"

IsGuardClose(tl) == tl = <<"#endif">>

IsUseLine(tl) == Len(tl) >= 3 /\ tl[1] = "USE"

IsHelperUseLine(tl) == IsUseLine(tl) /\ tl[2] = "utils_ppser,"

\* the positions of the anchor lines and of the import blocks in a text
AnchorIdx(text) == {i \in 1..Len(text) : IsImplicitLine(<<text[i]>>)}

ImportIdx(text) == {i \in 1..Len(text) : IsHelperUseLine(text[i])}

FirstOf(S) == CHOOSE i \in S : \A j \in S : i <= j

\* C1: in the generation pass the import block is synthesized at most once,
\* immediately before the first anchor line reached while the set of calls
\* is not empty; every later anchor line is emitted without an import block
C1_ImportBlockOnce ==
    (generate /\ pc \in {"loop", "write", "done"}) =>
        LET anchors == AnchorIdx(outputBuffer)
            imports == ImportIdx(outputBuffer)
            gap == IF ifdef # "" THEN 3 ELSE 2
        IN  /\ Cardinality(imports) <= 1
            /\ (anchors # {} /\ calls # {}) =>
                   imports = {FirstOf(anchors) - gap}
            /\ (anchors = {} \/ calls = {}) => imports = {}

\* a file with two anchor lines has been written with its import block
C1_Witness ==
    /\ wrote
    /\ Cardinality(AnchorIdx(written)) >= 2
    /\ ImportIdx(written) # {}

\* the symbols that a directive line adds to the set of calls
DirectiveSymbols(pl) ==
    ReSer([Self EXCEPT !.line = <<pl>>, !.calls = {}, !.err = ""]).calls

\* the symbols listed by the import statements of a text
ListedSymbols(text) ==
    UNION {Range(SubSeq(text[i], 4, Len(text[i]))) :
              i \in {j \in 1..Len(text) : IsUseLine(text[j])}}

\* the text emitted before the first anchor line
BeforeFirstAnchor(text) ==
    IF AnchorIdx(text) = {} THEN text
    ELSE SubSeq(text, 1, FirstOf(AnchorIdx(text)) - 1)

\* C2: for a file processed without error, every symbol that a directive of
\* the file adds to the set of calls, also a directive behind the first
\* anchor line, is listed in the import block before the first anchor line
C2_ImportListsAllSymbols ==
    wrote =>
        /\ \A i \in 1..Len(file) :
               IsSerLine(<<file[i]>>) =>
                   DirectiveSymbols(file[i])
                       \subseteq ListedSymbols(BeforeFirstAnchor(written))
        /\ calls \subseteq ListedSymbols(BeforeFirstAnchor(written))

\* a file whose directive follows its first anchor line has been written
C2_Witness ==
    /\ wrote
    /\ \E i, j \in 1..Len(file) :
          /\ i < j
          /\ IsImplicitLine(<<file[i]>>)
          /\ \A k \in 1..(j - 1) : ~IsSerLine(<<file[k]>>)
          /\ IsSerLine(<<file[j]>>)
          /\ DirectiveSymbols(file[j]) # {}

\* the symbols that an import statement lists, in their order
ImportedBy(tl) == SubSeq(tl, 4, Len(tl))

NoDuplicate(sq) == \A i, j \in 1..Len(sq) : i # j => sq[i] # sq[j]

\* the import statements of the library in a text
LibraryImportIdx(text) ==
    {i \in 1..Len(text) : IsUseLine(text[i]) /\ ~IsHelperUseLine(text[i])}

\* C16: the import block lists every symbol of the set of calls in exactly
\* one of its two import statements: the symbols of the preamble (prefix
\* ppser) with the six auxiliary symbols in the helper import, all others in
\* the import of the library; no symbol is left out or listed twice
C16_ImportPartition ==
    (generate /\ ImportIdx(outputBuffer) # {}) =>
        LET helper == ImportedBy(outputBuffer[FirstOf(ImportIdx(outputBuffer))])
            libIdx == LibraryImportIdx(outputBuffer)
            library == IF libIdx = {} THEN <<>>
                       ELSE ImportedBy(outputBuffer[FirstOf(libIdx)])
        IN  /\ Cardinality(libIdx) <= 1
            /\ NoDuplicate(helper) /\ NoDuplicate(library)
            /\ Range(helper) = {c \in calls : StartsWithPpser(c)}
                                 \cup Range(auxiliarySymbols)
            /\ Range(library) = {c \in calls : ~StartsWithPpser(c)}
            /\ libIdx # {} => library # <<>>
            /\ Range(helper) \cap Range(library) = {}
            /\ calls \subseteq Range(helper) \cup Range(library)

\* an import block with symbols of the preamble and of the library is written
C16_Witness ==
    /\ wrote
    /\ ImportIdx(written) # {}
    /\ \E c \in calls : StartsWithPpser(c)
    /\ Cardinality({c \in calls : ~StartsWithPpser(c)}) >= 2

---------------------------------------------------------------------------
\* Properties of the guard around the lines of directives

\* the guards open at the end of a text: opened and not yet closed
OpenGuards(text) ==
    Cardinality({i \in 1..Len(text) : IsGuardOpen(text[i])})
    - Cardinality({i \in 1..Len(text) : IsGuardClose(text[i])})

\* the guard markers of a text alternate: open, close, open, ...
Alternates(text) ==
    \A k \in 0..Len(text) : OpenGuards(SubSeq(text, 1, k)) \in {0, 1}

IsMarker(tl) == IsGuardOpen(tl) \/ IsGuardClose(tl)

\* the logical line that the next step of the loop completes or extends
LogicalLine ==
    IF line = <<>> THEN <<file[pos]>> ELSE JoinLine(line, file[pos])

\* the text that a step appends to the output buffer
Appended ==
    SubSeq(outputBuffer', Len(outputBuffer) + 1, Len(outputBuffer'))

\* a step of the generation pass that emits a logical line, the guard enabled
EmitsGuarded ==
    /\ generate /\ ifdef # ""
    /\ pc = "loop" /\ pos <= Len(file)
    /\ pc' = "loop" /\ line' = <<>>

\* C3: with the guard enabled the generation pass prepends a guard-open to
\* exactly the first line of each run of directive lines and a guard-close to
\* exactly the first line behind each run; the markers alternate, starting
\* with an open, and adjacent directive lines share one guard
C3_GuardAroundRuns ==
    /\ []((generate /\ ifdef # "") =>
            /\ Alternates(outputBuffer)
            /\ (pc = "loop" /\ line = <<>>) =>
                   OpenGuards(outputBuffer) = IF ser THEN 1 ELSE 0)
    /\ [][EmitsGuarded =>
            /\ ser' = IsSerLine(LogicalLine)
            /\ (IsSerLine(LogicalLine) /\ ~ser) =>
                   /\ Appended # <<>>
                   /\ Appended[1] = <<"#ifdef", ifdef>>
                   /\ \A i \in 2..Len(Appended) : ~IsMarker(Appended[i])
            /\ (IsSerLine(LogicalLine) /\ ser) =>
                   \A i \in 1..Len(Appended) : ~IsMarker(Appended[i])
            /\ (~IsSerLine(LogicalLine) /\ ser) =>
                   /\ Appended[1] = <<"#endif">>
                   /\ OpenGuards(Tail(Appended)) = 0
            /\ (~IsSerLine(LogicalLine) /\ ~ser) =>
                   /\ ~IsGuardClose(Appended[1])
                   /\ OpenGuards(Appended) = 0
       ]_vars

\* two runs of directive lines, the first of two lines, have been written
C3_Witness ==
    /\ wrote /\ ifdef # ""
    /\ \E i \in 1..Len(file) :
          /\ i + 3 <= Len(file)
          /\ IsSerLine(<<file[i]>>) /\ IsSerLine(<<file[i + 1]>>)
          /\ ~IsSerLine(<<file[i + 2]>>) /\ IsSerLine(<<file[i + 3]>>)
    /\ Cardinality({i \in 1..Len(written) : IsGuardOpen(written[i])}) = 2

\* C4: a file that ends inside a generated region (guard enabled, the last
\* line a directive line) ends in the fatal error and produces no output
C4_UnterminatedRegionFatal ==
    (ifdef # "" /\ file # <<>> /\ IsSerLine(<<Last(file)>>)) =>
        pc \notin {"write", "done"}

---------------------------------------------------------------------------
\* Properties of the scope tracker

\* a line that opens a unit, a line that ends a unit
IsUnitOpen(pl) ==
    IsModuleLine(<<pl>>) /\ Upper(pl[2]) # "PROCEDURE"

IsUnitEnd(pl) == IsEndmoduleLine(<<pl>>)

\* the units opened and not ended by the first n lines of the file
UnitsOpen(n) ==
    Cardinality({i \in 1..n : IsUnitOpen(file[i])})
    - Cardinality({i \in 1..n : IsUnitEnd(file[i])})

\* C5: a unit opened while a unit is open, a unit end while no unit is open,
\* a unit end with another name than the open one and the end of the file
\* with a unit open are fatal; otherwise an open records the name and a
\* matching end clears it, so that at most one unit is open
C5_ScopeTracker ==
    /\ []((pc = "loop" /\ line = <<>>) =>
            UnitsOpen(pos - 1) = IF module # "" THEN 1 ELSE 0)
    /\ [][(pc = "loop" /\ pos <= Len(file) /\ line = <<>>) =>
            /\ (IsUnitOpen(file[pos]) /\ module # "") => pc' = "exit"
            /\ (IsUnitOpen(file[pos]) /\ module = "") =>
                   (pc' = "loop" /\ module' = file[pos][2])
            /\ (IsUnitEnd(file[pos]) /\ module = "") => pc' = "exit"
            /\ (IsUnitEnd(file[pos]) /\ module # ""
                  /\ module # file[pos][3]) => pc' = "exit"
            /\ (IsUnitEnd(file[pos]) /\ module # ""
                  /\ module = file[pos][3]) => (pc' = "loop" /\ module' = "")
            /\ (~IsUnitOpen(file[pos]) /\ ~IsUnitEnd(file[pos])
                  /\ pc' = "loop") => module' = module
       ]_vars
    /\ [][(pc = "loop" /\ pos > Len(file) /\ module # "") => pc' = "exit"]_vars

\* a unit has been opened and ended, and the file has been written
C5_Witness ==
    /\ wrote
    /\ \E i, j \in 1..Len(file) :
          i < j /\ IsUnitOpen(file[i]) /\ IsUnitEnd(file[j])

---------------------------------------------------------------------------
\* Properties of the rewriting of declarations

IsRemovalRequest(pl) ==
    /\ IsSerLine(<<pl>>)
    /\ Len(SerArgs(<<pl>>)) >= 1
    /\ Upper(SerArgs(<<pl>>)[1]) \in language.data
    /\ "removeintentin" \in Range(SerArgParse(SerArgs(<<pl>>)).dirs)

\* the names that the first n lines of the file ask to rewrite, in their order
RECURSIVE RequestedNames(_)
RequestedNames(n) ==
    IF n = 0 THEN <<>>
    ELSE IF IsRemovalRequest(file[n])
    THEN AppendNew(RequestedNames(n - 1),
                   SerArgParse(SerArgs(<<file[n]>>)).values)
    ELSE RequestedNames(n - 1)

\* the names declared input-only somewhere in the file
LocatedNames ==
    UNION {DeclaredNames(file[i]) :
              i \in {j \in 1..Len(file) : IsDefTextLine(file[j])}}

\* the requested names that no input-only declaration of the file declares
UnmatchedNames ==
    SelectSeq(RequestedNames(Len(file)), LAMBDA x : x \notin LocatedNames)

ConsistencyMessage(names) ==
    "cannot find INTENT(IN) declaration for " \o JoinComma(names)

\* the program has left with the consistency error, for some list of names
IsConsistencyError ==
    \E S \in SUBSET Range(intentin_to_remove) :
        err = ConsistencyMessage(SelectSeq(intentin_to_remove,
                                           LAMBDA x : x \in S))

\* C6: the generation pass does not end well when a requested name is
\* declared input-only nowhere in the file; the consistency error is raised
\* by the generation pass only, only when a requested name is not located,
\* and it lists exactly the names not located
C6_RemovalConsistency ==
    /\ (generate /\ pc \in {"write", "done"}) => UnmatchedNames = <<>>
    /\ (pc = "exit" /\ IsConsistencyError) =>
           /\ generate
           /\ UnmatchedNames # <<>>
           /\ err = ConsistencyMessage(UnmatchedNames)
    /\ (generate /\ pc = "exit" /\ pos > Len(file) /\ ~ser /\ module = ""
          /\ (calls = {} \/ implicitnone_found)) => IsConsistencyError

\* of two requested names one is located and the other is reported
C6_Witness ==
    /\ pc = "exit" /\ IsConsistencyError
    /\ Len(RequestedNames(Len(file))) = 2
    /\ Len(UnmatchedNames) = 1

\* the requested names that a declaration line declares
MatchedNames(pl) ==
    {x \in Range(RequestedNames(Len(file))) : x \in DeclaredNames(pl)}

\* the text that a step appends behind the guard-close it may start with
AppendedBody ==
    IF ifdef # "" /\ ser THEN Tail(Appended) ELSE Appended

\* C17: the generation pass replaces every input-only declaration line that
\* declares a name requested anywhere in the file, before or behind it, by
\* two guarded variants, the line without the attribute under the guard and
\* the line as it is under the else branch, and records the matched names;
\* a declaration line with no requested name is emitted as it is
C17_DeclarationsRewritten ==
    [][(generate /\ pc = "loop" /\ pos <= Len(file) /\ line = <<>>
          /\ IsDefTextLine(file[pos])) =>
          /\ pc' = "loop"
          /\ MatchedNames(file[pos]) # {} =>
                 /\ AppendedBody = << <<"#ifdef", ifdef>>,
                                      StripIntentIn(file[pos]),
                                      <<"#else">>, file[pos], <<"#endif">> >>
                 /\ MatchedNames(file[pos]) \subseteq Range(intentin_removed')
          /\ MatchedNames(file[pos]) = {} =>
                 /\ AppendedBody = <<file[pos]>>
                 /\ intentin_removed' = intentin_removed
       ]_vars

\* a declaration ahead of the directive that requests it has been rewritten
C17_Witness ==
    /\ wrote
    /\ \E i, j \in 1..Len(file) :
          /\ i < j
          /\ IsDefTextLine(file[i]) /\ IsRemovalRequest(file[j])
          /\ \A k \in 1..(j - 1) : ~IsRemovalRequest(file[k])
    /\ <<"#else">> \in Range(written)

---------------------------------------------------------------------------
\* Properties of the continuation of lines

\* C7: a directive split over several physical lines, the continuation
\* prefix in any letter case, gives the tokens and the output of the same
\* directive written on one physical line
C7_ContinuationAsOneLine ==
    [][(pc = "loop" /\ pos <= Len(file) /\ line # <<>>
          /\ Upper(line[1][1]) = "!$SER"
          /\ IsContinuationLine(file[pos])) =>
          /\ line' = LoopBody([Self EXCEPT !.line = <<>>],
                              line[1] \o Tail(file[pos]), <<>>, generate).line
          /\ outputBuffer' =
                 LoopBody([Self EXCEPT !.line = <<>>],
                          line[1] \o Tail(file[pos]), <<>>,
                          generate).outputBuffer
          /\ err' = LoopBody([Self EXCEPT !.line = <<>>],
                             line[1] \o Tail(file[pos]), <<>>, generate).err
       ]_vars

ContinuationError == "Incorrect line continuation encountered"

\* C15: a physical line that arrives while a continuation is pending and
\* does not begin with the continuation prefix ends in a fatal error that
\* reports the number of that physical line, counted from 1
C15_ContinuationErrorLine ==
    [][(pc = "loop" /\ pos <= Len(file) /\ line # <<>>
          /\ ~IsContinuationLine(file[pos])) =>
          (pc' = "exit" /\ err' = ContinuationError /\ errline' = pos)]_vars

---------------------------------------------------------------------------
\* Properties of the whole run

\* C8: after a fatal error in either pass no output is written or printed;
\* the output is emitted only when both passes have ended without error
C8_NoOutputAfterError ==
    /\ (pc = "exit") <=> (err # "")
    /\ err # "" => (~wrote /\ written = <<>>)
    /\ wrote => (err = "" /\ generate /\ pc = "done" /\ pos > Len(file))

\* the generation pass has failed with lines in its output buffer
C8_Witness ==
    /\ pc = "exit" /\ generate
    /\ outputBuffer # <<>>
    /\ ~wrote

NoDirective == \A i \in 1..Len(file) : ~IsSerLine(<<file[i]>>)

\* C9: for a file with no directive line the set of calls stays empty, no
\* import block and no guard marker is emitted, and the output is the input
C9_NoDirectiveIdentity ==
    NoDirective =>
        /\ calls = {}
        /\ (generate /\ pc = "loop") => outputBuffer = SubSeq(file, 1, pos - 1)
        /\ pc \in {"write", "done"} => outputBuffer = file
        /\ wrote => written = file

\* a file with an anchor and a declaration and no directive has been written
C9_Witness ==
    /\ wrote /\ NoDirective
    /\ \E i, j \in 1..Len(file) :
          IsImplicitLine(<<file[i]>>) /\ IsDefTextLine(file[j])

\* C10: two runs on the same file with the same configuration produce the
\* same output, the order of the imported symbols included
C10_Deterministic ==
    (run = 2 /\ wrote) => written = prevWritten

---------------------------------------------------------------------------
\* Properties of the set of calls and of the requests between the passes

\* C11: the generation pass uses the set of calls and the list of requested
\* names as the analysis pass left them: the end of the analysis pass and the
\* start of the generation pass keep both, and no step of the generation pass
\* changes either of them
C11_FrozenInPassTwo ==
    [][(generate \/ generate') =>
          /\ calls' = calls
          /\ intentin_to_remove' = intentin_to_remove]_vars

\* the generation pass has ended with calls collected and a name requested
C11_Witness ==
    /\ generate /\ pc = "done"
    /\ calls # {}
    /\ intentin_to_remove # <<>>

\* C12 as stated: the set of calls is emptied at the start of every pass, the
\* generation pass included, and within a pass it only grows
C12_RegistryResetEveryPass ==
    [][/\ pc = "parse" => calls' = {}
       /\ pc = "loop" => calls \subseteq calls']_vars

\* C12 as amended: the set of calls is empty at the start of the analysis
\* pass, the start of the generation pass keeps it as the analysis pass left
\* it, and no step removes a symbol from it
C12_RegistryKeptAndGrowing ==
    [][/\ (pc = "parse" /\ ~generate) => (calls = {} /\ calls' = {})
       /\ (pc = "parse" /\ generate) => calls' = calls
       /\ calls \subseteq calls']_vars

\* the generation pass starts with the calls that the analysis pass collected
C12_Witness ==
    /\ generate /\ pc = "loop" /\ pos = 1
    /\ Cardinality(calls) >= 2

HasDirective == \E i \in 1..Len(file) : IsSerLine(<<file[i]>>)

NoAnchor == \A i \in 1..Len(file) : ~IsImplicitLine(<<file[i]>>)

NoAnchorError == "No IMPLICIT NONE statement found in code"

\* C13 as stated: a file with a directive line and no anchor line does not
\* get through: processing fails at the end of the file
C13_DirectiveWithoutAnchorFatal ==
    (HasDirective /\ NoAnchor) => (~generate /\ pc \notin {"write", "done"})

\* C13 as amended: a file with no anchor line whose directives have put a
\* symbol into the set of calls does not get through the analysis pass: at
\* the end of the file, with no unit open, the pass fails with the error of
\* the missing anchor; the error is raised in no other case
C13_CallsWithoutAnchorFatal ==
    /\ []((NoAnchor /\ calls # {}) => ~generate)
    /\ [](err = NoAnchorError =>
            (calls # {} /\ ~implicitnone_found /\ pos > Len(file)))
    /\ [][(pc = "loop" /\ pos > Len(file) /\ NoAnchor /\ calls' # {}
             /\ module = "" /\ ~ser') =>
            (pc' = "exit" /\ err' = NoAnchorError)]_vars

\* a file with a directive that calls the library has failed for its anchor
C13_Witness ==
    /\ pc = "exit" /\ err = NoAnchorError
    /\ HasDirective /\ NoAnchor

---------------------------------------------------------------------------
\* Properties of the parser of the arguments of a directive

\* the position of the first conditional marker among the arguments, 0 if none
MarkerPos(args) ==
    IF \E i \in 2..Len(args) : Upper(args[i]) = "IF"
    THEN CHOOSE i \in 2..Len(args) :
             Upper(args[i]) = "IF" /\ \A j \in 2..(i - 1) : Upper(args[j]) # "IF"
    ELSE 0

\* the tokens behind the first conditional marker
AfterMarker(args) ==
    IF MarkerPos(args) = 0 THEN <<>>
    ELSE SubSeq(args, MarkerPos(args) + 1, Len(args))

ClauseNotLastError == "IF statement must be last argument"

\* C14: behind the conditional marker one token is accepted as the
\* expression, and a directive with any further token behind that expression
\* ends in the error of the clause that is not last
C14_ConditionalMustBeLast ==
    [][(pc = "loop" /\ pos <= Len(file) /\ line = <<>>
          /\ IsSerLine(<<file[pos]>>)) =>
          LET after == AfterMarker(SerArgs(<<file[pos]>>))
          IN  /\ Len(after) = 1 =>
                     (pc' = "loop"
                      /\ generate => IfLine(after[1]) \in Range(Appended))
              /\ Len(after) >= 2 =>
                     (pc' = "exit" /\ err' = ClauseNotLastError)
       ]_vars

---------------------------------------------------------------------------
\* Properties of the register directive

IsRegisterLine(pl) ==
    /\ IsSerLine(<<pl>>)
    /\ Len(SerArgs(<<pl>>)) >= 1
    /\ Upper(SerArgs(<<pl>>)[1]) \in language.register

\* the bare arguments of a directive line
BareArgs(pl) == SerArgParse(SerArgs(<<pl>>)).dirs

\* C18: a register directive whose type, the second bare argument, is not in
\* the type table ends in a fatal error that the common error report raises,
\* with the number of the line
C18_UnknownTypeReported ==
    [][(pc = "loop" /\ pos <= Len(file) /\ line = <<>>
          /\ IsRegisterLine(file[pos])
          /\ Len(BareArgs(file[pos])) >= 2
          /\ BareArgs(file[pos])[2] \notin DOMAIN datatypes) =>
          (pc' = "exit" /\ err' # "" /\ ~traceback' /\ errline' = pos)]_vars

Mnemonics ==
    {"", "I", "J", "J2", "K", "K1", "IJ", "IJ3", "IK", "IK1", "JK", "JK1",
     "IJK", "IJK1"}

\* a register line with a name, a type of the table and one more bare argument
IsShortRegisterLine(pl) ==
    /\ IsRegisterLine(pl)
    /\ Len(pl) >= 5
    /\ Len(BareArgs(pl)) = 3
    /\ BareArgs(pl) = SubSeq(pl, 3, 5)
    /\ pl[4] \in DOMAIN datatypes

\* the line with the twelve arguments written in the place of the third one
Expanded(pl) ==
    SubSeq(pl, 1, 4) \o RegShortcuts(pl[5]) \o SubSeq(pl, 6, Len(pl))

\* C19: a register directive with a mnemonic of the shortcut table, in any
\* letter case, emits the call of the directive that writes the twelve
\* arguments of the table entry instead; every entry has twelve arguments;
\* a third argument that is no mnemonic is passed on as it is
C19_ShortcutAsExplicit ==
    /\ [](\A m \in Mnemonics : Len(RegShortcuts(m)) = 12)
    /\ [][(pc = "loop" /\ pos <= Len(file) /\ line = <<>>
             /\ IsShortRegisterLine(file[pos])) =>
            /\ Upper(file[pos][5]) \in Mnemonics =>
                   LET explicit == LoopBody(Self, Expanded(file[pos]), <<>>,
                                            generate)
                   IN  /\ Len(Expanded(file[pos])) = Len(file[pos]) + 11
                       /\ outputBuffer' = explicit.outputBuffer
                       /\ calls' = explicit.calls
                       /\ err' = "" /\ explicit.err = ""
            /\ Upper(file[pos][5]) \notin Mnemonics =>
                   /\ err' = ""
                   /\ generate =>
                          \E i \in 1..Len(Appended) :
                              /\ Len(Appended[i]) >= 6
                              /\ SubSeq(Appended[i], Len(Appended[i]) - 5,
                                        Len(Appended[i]))
                                   = <<"call",
                                       methods.register \o "(ppser_serializer,",
                                       "'" \o file[pos][3] \o "',">>
                                     \o [k \in 1..2 |->
                                           datatypes[file[pos][4]][k] \o ","]
                                     \o <<file[pos][5] \o ")">>
          ]_vars

\* fields have been registered with a mnemonic and with a plain argument
C19_Witness ==
    /\ wrote
    /\ \E i, j \in 1..Len(file) :
          /\ IsShortRegisterLine(file[i]) /\ IsShortRegisterLine(file[j])
          /\ file[i][5] = "k1"
          /\ Upper(file[j][5]) \notin Mnemonics

---------------------------------------------------------------------------
\* Properties of the data directive

IsDataLine(pl) ==
    /\ IsSerLine(<<pl>>)
    /\ Len(SerArgs(<<pl>>)) >= 1
    /\ Upper(SerArgs(<<pl>>)[1]) \in language.data

\* the indices of the lines of a text that hold a given word
LinesWith(text, w) == {i \in 1..Len(text) : w \in Range(text[i])}

\* the key and the value that a call statement ends with
CallPair(tl) == SubSeq(tl, Len(tl) - 1, Len(tl))

\* the pairs of the calls of a function in a text, in the order of the text
PairsOf(text, fn) ==
    LET callLines == SelectSeq(text, LAMBDA tl : fn \in Range(tl))
    IN  [i \in 1..Len(callLines) |-> CallPair(callLines[i])]

\* the pairs of a directive, as a call statement ends with them
ExpectedPairs(p) ==
    [i \in 1..Len(p.keys) |-> <<"'" \o p.keys[i] \o "',", p.values[i] \o ")">>]

\* the text of a mode branch: the calls that write between the two cases,
\* the calls that read between the second case and the end of the branch
IsModeBranch(text, p) ==
    LET case0 == LinesWith(text, "CASE(" \o modes.write \o ")")
        case1 == LinesWith(text, "CASE(" \o modes.read \o ")")
        wr == methods.datawrite \o "(ppser_serializer,"
        rd == methods.dataread \o "(ppser_serializer_ref,"
    IN  /\ Len(text) >= 4
        /\ LinesWith(text, "SELECT") = {1, Len(text)}
        /\ methods.getmode \o "()" \in Range(text[1])
        /\ "END" \in Range(text[Len(text)])
        /\ Cardinality(case0) = 1 /\ Cardinality(case1) = 1
        /\ FirstOf(case0) = 2
        /\ \A i \in LinesWith(text, wr) :
               FirstOf(case0) < i /\ i < FirstOf(case1)
        /\ \A i \in LinesWith(text, rd) :
               FirstOf(case1) < i /\ i < Len(text)
        /\ PairsOf(text, wr) = ExpectedPairs(p)
        /\ PairsOf(text, rd) = ExpectedPairs(p)

\* the text that a step appends behind the guard-open it may start with
AppendedDirective ==
    IF ifdef # "" /\ ~ser THEN Tail(Appended) ELSE Appended

\* C20: a data directive with key=value pairs emits one mode branch, with
\* one call that writes per pair in the write branch and one call that reads
\* per pair in the read branch, in the order of the pairs, inside a
\* conditional block on the expression of the clause if there is one; the
\* symbols that write, read and get the mode are in the set of calls
C20_DataBranch ==
    [][(pc = "loop" /\ pos <= Len(file) /\ line = <<>>
          /\ IsDataLine(file[pos])) =>
          LET p == SerArgParse(SerArgs(<<file[pos]>>))
              text == AppendedDirective
          IN  /\ pc' = "loop"
              /\ {methods.datawrite, methods.dataread, methods.getmode}
                     \subseteq calls'
              /\ generate =>
                     IF p.if_statement # ""
                     THEN /\ Len(text) >= 2
                          /\ text[1] = IfLine(p.if_statement)
                          /\ Last(text) = EndIfLine
                          /\ IsModeBranch(SubSeq(text, 2, Len(text) - 1), p)
                     ELSE IsModeBranch(text, p)
       ]_vars

\* a directive with two pairs and a clause has been written
C20_Witness ==
    /\ wrote
    /\ \E i \in 1..Len(file) :
          /\ IsDataLine(file[i])
          /\ Len(SerArgParse(SerArgs(<<file[i]>>)).keys) = 2
          /\ SerArgParse(SerArgs(<<file[i]>>)).if_statement # ""
    /\ IfLine("c") \in Range(written)

---------------------------------------------------------------------------
\* Properties of the classification of the arguments

\* the tokens of a directive before its conditional marker, the keyword left out
TokensBefore(args) ==
    IF MarkerPos(args) = 0 THEN Tail(args)
    ELSE SubSeq(args, 2, MarkerPos(args) - 1)

\* the number of '=' characters of a token
Equals(t) == Len(Split(t)) - 1

BareTokens(args) == SelectSeq(TokensBefore(args), LAMBDA t : Equals(t) = 0)

PairTokens(args) == SelectSeq(TokensBefore(args), LAMBDA t : Equals(t) = 1)

ExtractError == "Problem extracting arguments and key=value pairs"

\* a directive whose handler parses its arguments with the common parser
ParsesArguments(args) ==
    /\ args # <<>>
    /\ Upper(args[1]) \in language.metainfo \cup language.savepoint
                           \cup language.zero \cup language.data

\* C21: before the conditional marker a token with no '=' is a bare
\* argument, a token with one '=' is a key/value pair and a token with more
\* than one '=' ends the program in an error; the bare arguments and the
\* pairs come out in the order of the tokens, every token in exactly one of
\* the two sequences, as the statements of a metainfo directive show
C21_ArgumentsClassified ==
    [][(pc = "loop" /\ pos <= Len(file) /\ line = <<>>
          /\ IsSerLine(<<file[pos]>>)
          /\ ParsesArguments(SerArgs(<<file[pos]>>))) =>
          LET args == SerArgs(<<file[pos]>>)
              p == SerArgParse(args)
              bare == BareTokens(args)
              pairs == PairTokens(args)
          IN  IF \E t \in Range(TokensBefore(args)) : Equals(t) >= 2
              THEN pc' = "exit" /\ err' = ExtractError
              ELSE /\ err' # ExtractError
                   /\ p.dirs = bare
                   /\ p.keys = [i \in 1..Len(pairs) |-> Split(pairs[i])[1]]
                   /\ p.values = [i \in 1..Len(pairs) |-> Split(pairs[i])[2]]
                   /\ Len(p.dirs) + Len(p.keys) = Len(TokensBefore(args))
                   /\ (Upper(args[1]) \in language.metainfo
                       /\ MarkerPos(args) = 0 /\ generate) =>
                          AppendedDirective =
                              [i \in 1..Len(pairs) |->
                                  MetainfoLine("", Split(pairs[i])[1],
                                               Split(pairs[i])[2])]
                              \o [i \in 1..Len(bare) |->
                                  MetainfoLine("", bare[i], bare[i])]
       ]_vars

\* a directive with two pairs between two bare arguments has been written
C21_Witness ==
    /\ wrote
    /\ \E i \in 1..Len(file) :
          /\ IsSerLine(<<file[i]>>)
          /\ Len(BareTokens(SerArgs(<<file[i]>>))) = 2
          /\ Len(PairTokens(SerArgs(<<file[i]>>))) = 2
    /\ MetainfoLine("", "e", "f") \in Range(written)
    /\ MetainfoLine("", "b", "b") \in Range(written)

---------------------------------------------------------------------------
\* Properties of the dispatch of the directives

\* the kinds of directive whose names and abbreviations hold a word, in any
\* letter case
KindsOf(w) == {k \in DOMAIN language : Upper(w) \in language[k]}

\* the handler of a kind of directive
HandlerOf(k, s, args) ==
    CASE k = "init" -> SerInit(s, args)
      [] k = "option" -> SerOption(s, args)
      [] k = "metainfo" -> SerMetainfo(s, args)
      [] k = "verbatim" -> SerVerbatim(s, args)
      [] k = "register" -> SerRegister(s, args)
      [] k = "savepoint" -> SerSavepoint(s, args)
      [] k = "zero" -> SerZero(s, args)
      [] k = "data" -> SerData(s, args)
      [] k = "tracer" -> SerTracer(s, args)
      [] k = "registertracers" -> SerRegistertracers(s, args)
      [] k = "cleanup" -> SerCleanup(s, args)
      [] k = "on" -> SerOn(s, args)
      [] k = "off" -> SerOff(s, args)
      [] k = "mode" -> SerMode(s, args)

UnknownDirectiveError == "Unknown directive encountered"

\* the parser after the handler of a kind has expanded the directive line
\* coming in, the guard has been put around it and the line has gone out
HandledBy(k) ==
    EmitLine(Guard(HandlerOf(k, NextLineIn(Self, file[pos]),
                             SerArgs(<<file[pos]>>)), TRUE), generate)

\* C22: a directive line whose first token is, in any letter case, a name or
\* an abbreviation of the table is handled by the handler of exactly that
\* kind of directive, and a directive line whose first token is no entry of
\* the table ends in the error of the unknown directive
C22_DispatchTotal ==
    [][(pc = "loop" /\ pos <= Len(file) /\ line = <<>>
          /\ IsSerLine(<<file[pos]>>)
          /\ ~IsContinued(<<file[pos]>>)
          /\ SerArgs(<<file[pos]>>) # <<>>) =>
          LET kinds == KindsOf(SerArgs(<<file[pos]>>)[1])
          IN  IF kinds = {}
              THEN pc' = "exit" /\ err' = UnknownDirectiveError
              ELSE /\ Cardinality(kinds) = 1
                   /\ \A k \in kinds :
                         /\ err' = HandledBy(k).err
                         /\ calls' = HandledBy(k).calls
                         /\ outputBuffer' = HandledBy(k).outputBuffer
                         /\ ser' = HandledBy(k).ser
                         /\ intentin_to_remove' = HandledBy(k).intentin_to_remove
       ]_vars

\* a directive whose keyword is written in mixed case has been expanded
C22_Witness ==
    /\ wrote
    /\ \E i \in 1..Len(file) :
          /\ IsSerLine(<<file[i]>>)
          /\ SerArgs(<<file[i]>>)[1] = "Zero"
    /\ <<"a", "=", "0.0_" \o real>> \in Range(written)

---------------------------------------------------------------------------
\* Properties of the conditional block of a directive

\* the kinds of directive that take a conditional clause
ClauseKinds ==
    {"init", "option", "metainfo", "register", "zero", "savepoint", "mode",
     "data", "tracer"}

\* a statement indented by one more level
Indented(tl) ==
    IF tl # <<>> /\ tl[1] \in {"  ", "    "}
    THEN <<"  " \o tl[1]>> \o Tail(tl)
    ELSE <<"  ">> \o tl

\* the statements that the handler of a kind emits for the tokens before the
\* conditional marker, the clause left out
PlainStatements(k, args) ==
    HandlerOf(k, NextLineIn(Self, file[pos]),
              SubSeq(args, 1, MarkerPos(args) - 1)).line

\* C23: a directive of a kind that takes a conditional clause, when it has
\* one, emits the line that begins the block, then every statement that it
\* emits without the clause indented by one more level, then the line that
\* ends the block; when it has none it emits no line of a block
C23_ConditionalBlock ==
    [][(pc = "loop" /\ pos <= Len(file) /\ line = <<>>
          /\ IsSerLine(<<file[pos]>>)
          /\ SerArgs(<<file[pos]>>) # <<>>
          /\ KindsOf(SerArgs(<<file[pos]>>)[1]) \cap ClauseKinds # {}
          /\ generate /\ pc' = "loop") =>
          LET args == SerArgs(<<file[pos]>>)
              text == AppendedDirective
          IN  \A k \in KindsOf(args[1]) :
                 IF Len(AfterMarker(args)) = 1
                 THEN text = <<IfLine(AfterMarker(args)[1])>>
                             \o [i \in 1..Len(PlainStatements(k, args)) |->
                                    Indented(PlainStatements(k, args)[i])]
                             \o <<EndIfLine>>
                 ELSE MarkerPos(args) = 0 =>
                         (/\ EndIfLine \notin Range(text)
                          /\ \A i \in 1..Len(text) :
                                text[i] = <<>> \/ text[i][1] # "IF"
                          /\ text = HandlerOf(k, NextLineIn(Self, file[pos]),
                                              args).line)
       ]_vars

---------------------------------------------------------------------------
\* Properties of the two lists of names of the attribute removal

\* the requested names that no declaration has been found for so far
Missing ==
    SelectSeq(intentin_to_remove, LAMBDA x : x \notin Range(intentin_removed))

\* the errors of the final call of the lexer on an empty line
FinalErrors ==
    {"Unterminated #ifdef " \o ifdef \o " encountered",
     "Unterminated module or program unit encountered",
     "No IMPLICIT NONE statement found in code"}

\* C24: in both passes the list of the names found has no duplicate and
\* holds requested names only, and the list of the requested names has no
\* duplicate, so that the two lengths differ exactly when a requested name
\* has not been found; the generation pass that reaches its end with such a
\* name leaves with an error, the consistency error unless the final call of
\* the lexer raised its own, and without such a name it raises no
\* consistency error
C24_RemovalLists ==
    /\ [](/\ NoDuplicate(intentin_to_remove)
          /\ NoDuplicate(intentin_removed)
          /\ Range(intentin_removed) \subseteq Range(intentin_to_remove)
          /\ (Len(intentin_to_remove) # Len(intentin_removed)) <=>
                 (Missing # <<>>))
    /\ [][(generate /\ pc = "loop" /\ pos > Len(file) /\ line = <<>>) =>
             IF Missing # <<>>
             THEN /\ pc' = "exit"
                  /\ err' \in FinalErrors \cup {ConsistencyMessage(Missing)}
             ELSE err' \in FinalErrors \cup {""}
         ]_vars

\* the generation pass has ended with one of two requested names found
C24_Witness ==
    /\ generate /\ pc = "exit" /\ pos > Len(file)
    /\ Len(intentin_to_remove) = 2
    /\ Len(intentin_removed) = 1
    /\ err = ConsistencyMessage(Missing)

---------------------------------------------------------------------------
\* Properties of the two passes together

\* C25: the generation pass, which runs only after the analysis pass has
\* reached its end without an error, raises no error on a line of the file
\* and no error of the scope, the guard or the anchor at its end: the only
\* error it leaves with is the consistency error of the attribute removal,
\* raised behind the last line and the final call of the lexer
C25_PassesAgree ==
    (generate /\ pc = "exit") =>
        /\ pos > Len(file)
        /\ ~traceback
        /\ Missing # <<>>
        /\ err = ConsistencyMessage(Missing)
        /\ ~ser /\ module = "" /\ (calls = {} \/ implicitnone_found)

\* the generation pass of a file with a program unit and an import block has
\* left with an error
C25_Witness ==
    /\ generate /\ pc = "exit"
    /\ \E i \in 1..Len(file) : IsModuleLine(<<file[i]>>)
    /\ ImportIdx(outputBuffer) # {}

---------------------------------------------------------------------------
\* Properties of the disabled guard

\* a line of the conditional guard: it opens, alternates or closes a region
IsGuardLine(tl) ==
    tl # <<>> /\ tl[1] \in {"#ifdef", "#else", "#endif"}

\* C26: when the token of the guard is empty the guard state never becomes
\* true and no line of the output is a line of the guard, around the lines
\* of directives, around the import block or around a rewritten declaration
C26_NoGuardWhenDisabled ==
    ifdef = "" =>
        /\ ~ser
        /\ \A i \in 1..Len(outputBuffer) : ~IsGuardLine(outputBuffer[i])
        /\ \A i \in 1..Len(written) : ~IsGuardLine(written[i])

---------------------------------------------------------------------------
\* Properties of a continuation that the end of the file cuts short

\* C27: when the file ends while a directive line is pending, the pass ends
\* in an error, with the guard enabled or disabled, and no output is
\* written for such a file
C27_PendingContinuationFatal ==
    [][(pc = "loop" /\ pos > Len(file) /\ line # <<>>) =>
          (pc' = "exit" /\ err' # "")]_vars

====
